---- MODULE Spec2Model ----
(***************************************************************************)
(* WattWhere scoring pipeline: the persistence store (tiles, five category *)
(* score tables, child tables, overall_scores, composite_weights) and the  *)
(* batch programs that write it: grid/generate_grid.py, the five           *)
(* <category>/ingest.py pipelines, overall/compute_composite.py and        *)
(* PUT /api/weights.                                                       *)
(*                                                                         *)
(* Units: a score is kept in hundredths (0..10000 is 0.00..100.00), a      *)
(* weight in ten-thousandths (10000 is 1.0), an area in square metres.     *)
(* A table variable holds the committed rows only: what a transaction has  *)
(* executed but not committed is local to the action that runs it.         *)
(***************************************************************************)
EXTENDS Integers, Sequences, FiniteSets, TLC

\* ---------------------------------------------------------------- bounds
\* tiles in one generated grid
NTiles == 2
\* how many times the grid is generated in a behaviour
MaxGrids == 2
\* rows per execute_values batch (500 / 2000 in the source, scaled to the grid)
batch_size == 1

\* ------------------------------------------------------ program constants
TILE_SIZE_M == 2236
\* shapely.simplify(..., tolerance=250.0) in _prep_vector, metres
SIMPLIFY_TOLERANCE == 250

Cells == 1..NTiles
TileIds == 1..(NTiles * MaxGrids)
\* The grid is regenerated over the same boundary: tile ids are new (SERIAL),
\* the cell a tile covers is its position in the lattice.
CellOf(t) == ((t - 1) % NTiles) + 1

NULL == "NULL"
EmptyTable == [t \in {} |-> NULL]

Min2(a, b) == IF a <= b THEN a ELSE b
Max2(a, b) == IF a >= b THEN a ELSE b
Clip(x, lo, hi) == Max2(lo, Min2(x, hi))
SetMin(S) == CHOOSE x \in S : \A y \in S : x <= y
SetMax(S) == CHOOSE x \in S : \A y \in S : x >= y

\* numpy / pandas round(): n/d to the nearest integer, ties to even (n >= 0, d > 0)
RoundHalfEven(n, d) ==
    LET q == n \div d
        r == n % d
    IN  IF 2 * r < d THEN q
        ELSE IF 2 * r > d THEN q + 1
        ELSE IF q % 2 = 0 THEN q ELSE q + 1

\* SQL ROUND(numeric, 2): n/d to the nearest integer, ties away from zero (n >= 0)
RoundHalfUp(n, d) == IF 2 * (n % d) >= d THEN n \div d + 1 ELSE n \div d

VARIABLES
    tiles,                       \* tile ids in the tiles table
    tile_seq,                    \* last value of the tile_id sequence
    grid_pc,                     \* load_tiles_to_db: "idle" | "truncated"
    grids,                       \* grids generated so far
    energy_scores,
    environment_scores,
    cooling_scores,
    connectivity_scores,
    planning_scores,
    tile_designation_overlaps,
    tile_planning_applications,
    overall_scores,
    composite_weights,
    comp_pc,                     \* compute_composite.main: "idle" | "loaded"
    weights,                     \* main's local: the weights it loaded
    scores_df,                   \* main's local: the joined sort scores it loaded
    comp_out,                    \* what the last composite run printed / how it ended
    metric_ranges,               \* <<sort, metric>> -> <<min_val, max_val>>
    pins,                        \* pins_<sort>, by sort: the rows of the pin table
    pins_overall,                \* the rows of pins_overall
    pipe_pc,                     \* by sort, a category main run on its own: the
                                 \* transactions done, its status, the files absent
    fn_in,                       \* unit harness: the function applied and its arguments
    fn_out                       \* unit harness: what it returned

gridVars == <<tiles, tile_seq, grid_pc, grids>>
sortVars == <<energy_scores, environment_scores, cooling_scores,
              connectivity_scores, planning_scores>>
childVars == <<tile_designation_overlaps, tile_planning_applications>>
compVars == <<comp_pc, weights, scores_df, comp_out>>
sideVars == <<metric_ranges, pins>>
fnVars == <<fn_in, fn_out>>
vars == <<gridVars, sortVars, childVars, overall_scores, composite_weights, compVars,
          sideVars, pins_overall, pipe_pc, fnVars>>

\* ------------------------------------------------------------ persistence

\* Variant: INSERT ... ON CONFLICT (tile_id) DO NOTHING, an existing row is kept.
InsertIgnore(table, rows) ==
    [t \in (DOMAIN table) \cup (DOMAIN rows) |->
        IF t \in DOMAIN table THEN table[t] ELSE rows[t]]

\* Variant: ON CONFLICT (tile_id) DO UPDATE SET score = table.score + EXCLUDED.score.
UpsertAccumulate(table, rows) ==
    [t \in (DOMAIN table) \cup (DOMAIN rows) |->
        IF t \notin DOMAIN rows THEN table[t]
        ELSE IF t \notin DOMAIN table THEN rows[t]
        ELSE [rows[t] EXCEPT !.score = table[t].score + rows[t].score]]

\* INSERT ... ON CONFLICT (tile_id) DO UPDATE of rows into table
Upsert(table, rows) ==
    [t \in (DOMAIN table) \cup (DOMAIN rows) |->
        IF t \in DOMAIN rows THEN rows[t] ELSE table[t]]

\* rows[i : i + batch_size] for the k-th pass of the loop (k = 1, 2, ...)
BatchIds(ids, k) ==
    {t \in ids : LET rank == Cardinality({u \in ids : u < t})
                 IN  (k - 1) * batch_size <= rank /\ rank < k * batch_size}
NumBatches(ids) == (Cardinality(ids) + batch_size - 1) \div batch_size
DoneIds(ids, k) == UNION {BatchIds(ids, j) : j \in 1..k}

\* Variant: no foreign key from the score tables to tiles.
fk_off(ids, tl) == TRUE

\* Every sort table references tiles(tile_id): a row for a tile that is not in
\* tiles makes its INSERT raise.
fk_ok(ids, tl) == ids \subseteq tl

\* The first batch whose execute_values raises: the injected failure failAt
\* (0: none) or the first batch holding a row that violates the foreign key.
FirstFailure(ids, tl, failAt) ==
    LET bad == {k \in 1..NumBatches(ids) :
                    k = failAt \/ ~fk_ok(BatchIds(ids, k), tl)}
    IN  IF bad = {} THEN 0 ELSE SetMin(bad)

\* Variant: a commit after every batch, so that the batches executed before the
\* failing one stay in the table.
TxnUpsertPerBatch(table, rows, tl, failAt) ==
    LET k == FirstFailure(DOMAIN rows, tl, failAt)
    IN  IF k = 0 THEN Upsert(table, rows)
        ELSE Upsert(table, [t \in DoneIds(DOMAIN rows, k - 1) |-> rows[t]])

\* What the table holds after the upsert loop with one commit after the loop
\* and rollback in the except branch.
TxnUpsert(table, rows, tl, failAt) ==
    IF FirstFailure(DOMAIN rows, tl, failAt) = 0
    THEN Upsert(table, rows)
    ELSE table

\* the five category pipelines, named as metric_ranges.sort names them
Pipelines == {"energy", "environment", "cooling", "connectivity", "planning"}

NoPins == [p \in Pipelines |-> {}]
\* no category main is running on its own
NoRuns == [p \in Pipelines |-> [at |-> 0, status |-> "running", absent |-> {}]]

\* Variant: the table emptied before the rows are inserted.
write_metric_ranges_replace(table, rows) == rows

\* INSERT INTO metric_ranges ... ON CONFLICT (sort, metric) DO UPDATE, one
\* transaction for the rows of a run
write_metric_ranges(table, rows) ==
    [k \in (DOMAIN table) \cup (DOMAIN rows) |->
        IF k \in DOMAIN rows THEN rows[k] ELSE table[k]]

\* the pins of a run: one per source feature, tile_id assigned by ST_Within
\* over tiles (no tile around the pin: NULL, the empty set)
pin_rows(features, tl) ==
    {[name |-> f.name, tile_id |-> {t \in tl : CellOf(t) = f.cell}] : f \in features}

\* upsert_pins_<sort>: nothing when the run has no pin; otherwise DELETE FROM
\* the table, committed, then the INSERT and the tile_id UPDATE in a second
\* transaction that is rolled back when it raises
upsert_pins(table, rows, raised) ==
    IF rows = {} THEN table ELSE IF raised THEN {} ELSE rows

\* ------------------------------------------------------- category scoring

\* Min-max normalisation of v over a population with minimum lo and maximum hi,
\* as the fraction <<numerator, denominator>>; 50 when the range is zero.
MinMaxNorm(v, lo, hi) ==
    IF hi - lo > 0 THEN <<100 * (v - lo), hi - lo>> ELSE <<50, 1>>

\* Source data of one energy run, by cell: zonal mean wind speed and solar GHI,
\* grid_proximity and renewable_score (0..100); the cells of the OSM
\* substations.
EnergySources ==
    { [wind |-> [c \in Cells |-> 6 + 2 * c],
       solar |-> [c \in Cells |-> 1100 - 50 * c],
       grid_proximity |-> [c \in Cells |-> 80],
       renewable_score |-> [c \in Cells |-> 40],
       substations |-> {1}] }

\* score = 0.30 wind_norm + 0.25 solar_norm + 0.25 grid_proximity + 0.20 renew,
\* clip(0, 100), round(2)
energy_score(w, s, gp, rn) ==
    LET num == 30 * w[1] * s[2] + 25 * s[1] * w[2] + (25 * gp + 20 * rn) * w[2] * s[2]
        den == w[2] * s[2]
    IN  RoundHalfEven(Clip(num, 0, 10000 * den), den)

compute_energy_scores(src, tl) ==
    LET wind(t) == src.wind[CellOf(t)]
        solar(t) == src.solar[CellOf(t)]
        winds == {wind(t) : t \in tl}
        solars == {solar(t) : t \in tl}
    IN  [t \in tl |->
            [score |-> energy_score(
                          MinMaxNorm(wind(t), SetMin(winds), SetMax(winds)),
                          MinMaxNorm(solar(t), SetMin(solars), SetMax(solars)),
                          src.grid_proximity[CellOf(t)],
                          src.renewable_score[CellOf(t)]),
             wind_speed_100m |-> wind(t),
             solar_ghi |-> solar(t),
             grid_proximity |-> src.grid_proximity[CellOf(t)],
             renewable_score |-> src.renewable_score[CellOf(t)]]]

\* renewable.compute_renewable_scores over one generator dataset, by cell:
\* renewable_score = min(int(round(pct)), 100), never null after the national
\* average is filled in
RenewableSources ==
    { [renewable_score |-> [c \in Cells |-> 50 + 10 * c]] }

compute_renewable_scores(src, tl) ==
    [t \in tl |-> [renewable_score |-> src.renewable_score[CellOf(t)]]]

\* min_val and max_val of one metric_ranges row
Range(S) == <<SetMin(S), SetMax(S)>>

\* the metric_ranges rows energy write_metric_ranges writes after a run
energy_metric_ranges(src, tl) ==
    (<<"energy", "wind_speed_100m">> :> Range({src.wind[CellOf(t)] : t \in tl}))
    @@ (<<"energy", "solar_ghi">> :> Range({src.solar[CellOf(t)] : t \in tl}))
    @@ (<<"energy", "renewable_pct">> :> Range({src.renewable_score[CellOf(t)] : t \in tl}))

\* the row renewable.write_metric_ranges writes
renewable_metric_ranges(src, tl) ==
    <<"energy", "renewable_pct">> :> Range({src.renewable_score[CellOf(t)] : t \in tl})

\* upsert_pins_energy: one pin per substation
energy_pin_features(src) == {[name |-> "substation", cell |-> c] : c \in src.substations}

\* (x - min_val) / NULLIF(max_val - min_val, 0) * 100 over the metric_ranges
\* row of the metric, COALESCEd to 50 when the row is missing or its range zero
RangeNorm(v, r, metric) ==
    IF <<"energy", metric>> \in DOMAIN r
    THEN MinMaxNorm(v, r[<<"energy", metric>>][1], r[<<"energy", metric>>][2])
    ELSE <<50, 1>>

\* the score the second UPDATE of update_energy_scores gives a stored row:
\* ROUND(LEAST(100, GREATEST(0, 0.30 wind_norm + 0.25 solar_norm
\*       + 0.25 grid_proximity + 0.20 renewable_score)), 2) over the
\* metric_ranges table r
energy_score_sql(row, r) ==
    LET w == RangeNorm(row.wind_speed_100m, r, "wind_speed_100m")
        s == RangeNorm(row.solar_ghi, r, "solar_ghi")
        num == 30 * w[1] * s[2] + 25 * s[1] * w[2]
               + (25 * row.grid_proximity + 20 * row.renewable_score) * w[2] * s[2]
        den == w[2] * s[2]
    IN  RoundHalfUp(Clip(num, 0, 10000 * den), den)

\* renewable.update_energy_scores: the renewable columns of the rows that
\* exist are set from df, then every score is recomputed; one commit
update_energy_scores(table, df, r) ==
    [t \in DOMAIN table |->
        LET row == IF t \in DOMAIN df
                   THEN [table[t] EXCEPT !.renewable_score = df[t].renewable_score]
                   ELSE table[t]
        IN  [row EXCEPT !.score = energy_score_sql(row, r)]]

\* Source data of one cooling run, by cell: mean temperature, rainfall and
\* water_proximity (0..100); the cells of the hydrometric stations.
CoolingSources ==
    { [temperature |-> [c \in Cells |-> 8 + c],
       rainfall |-> [c \in Cells |-> 900 + 100 * c],
       water_proximity |-> [c \in Cells |-> 60],
       stations |-> {1}] }

\* score = 0.40 (100 - temp_norm) + 0.35 water_proximity + 0.25 rain_norm
cooling_score(tn, rn, water) ==
    LET num == 40 * (100 * tn[2] - tn[1]) * rn[2] + 25 * rn[1] * tn[2]
               + 35 * water * tn[2] * rn[2]
        den == tn[2] * rn[2]
    IN  RoundHalfEven(Clip(num, 0, 10000 * den), den)

compute_cooling_scores(src, tl) ==
    LET temp(t) == src.temperature[CellOf(t)]
        rain(t) == src.rainfall[CellOf(t)]
        temps == {temp(t) : t \in tl}
        rains == {rain(t) : t \in tl}
    IN  [t \in tl |->
            [score |-> cooling_score(
                          MinMaxNorm(temp(t), SetMin(temps), SetMax(temps)),
                          MinMaxNorm(rain(t), SetMin(rains), SetMax(rains)),
                          src.water_proximity[CellOf(t)]),
             temperature |-> temp(t),
             rainfall |-> rain(t),
             water_proximity |-> src.water_proximity[CellOf(t)]]]

\* the metric_ranges rows cooling write_metric_ranges writes after a run
cooling_metric_ranges(src, tl) ==
    (<<"cooling", "temperature">> :> Range({src.temperature[CellOf(t)] : t \in tl}))
    @@ (<<"cooling", "rainfall">> :> Range({src.rainfall[CellOf(t)] : t \in tl}))

\* upsert_pins_cooling: one pin per hydrometric station
cooling_pin_features(src) ==
    {[name |-> "hydrometric_station", cell |-> c] : c \in src.stations}

\* Source data of one connectivity run, by cell: the three sub-scores
\* (0..100); the cells of the internet exchanges.
ConnectivitySources ==
    { [broadband |-> [c \in Cells |-> 100],
       ix_distance |-> [c \in Cells |-> 50],
       road_access |-> [c \in Cells |-> 75],
       exchanges |-> {1}] }

\* score = 0.35 broadband + 0.30 ix_distance + 0.20 road_access + 0.15 * 0
connectivity_score(broadband, ix_distance, road_access) ==
    Clip(35 * broadband + 30 * ix_distance + 20 * road_access, 0, 10000)

compute_connectivity_scores(src, tl) ==
    [t \in tl |->
        [score |-> connectivity_score(src.broadband[CellOf(t)],
                                      src.ix_distance[CellOf(t)],
                                      src.road_access[CellOf(t)]),
         broadband |-> src.broadband[CellOf(t)],
         ix_distance |-> src.ix_distance[CellOf(t)],
         road_access |-> src.road_access[CellOf(t)]]]

\* upsert_pins_connectivity: one pin per internet exchange
connectivity_pin_features(src) ==
    {[name |-> "internet_exchange", cell |-> c] : c \in src.exchanges}

\* A nullable number: None is NULL / NaN, Some(x) the number x.
None == {}
Some(x) == {x}
Get(m) == CHOOSE x \in m : TRUE

\* Source data of one planning run, by cell: zoning_tier, pct_residential, the
\* data-centre applications within 10 km ("none" | "any" | "granted"), the
\* applications inside the tile, and the PPR average price (None: no sale in
\* the tile); has_ppr: the PPR file exists.
PlanningSources ==
    { [has_ppr |-> FALSE,
       zoning_tier |-> [c \in Cells |-> IF c = 1 THEN 100 ELSE 10],
       pct_residential |-> [c \in Cells |-> IF c = 1 THEN 0 ELSE 5],
       dc_nearby |-> [c \in Cells |-> IF c = 1 THEN "granted" ELSE "none"],
       applications |-> [c \in Cells |-> IF c = 1 THEN {"APP-0"} ELSE {}],
       price |-> [c \in Cells |-> None]],
      [has_ppr |-> TRUE,
       zoning_tier |-> [c \in Cells |-> 80],
       pct_residential |-> [c \in Cells |-> 0],
       dc_nearby |-> [c \in Cells |-> "any"],
       applications |-> [c \in Cells |-> {}],
       price |-> [c \in Cells |-> Some(100 * c)]] }

\* compute_planning_applications: any DC application nearby 40, a granted one 60
planning_precedent(dc_nearby) ==
    IF dc_nearby = "granted" THEN 60 ELSE IF dc_nearby = "any" THEN 40 ELSE 0

\* 100 - (price - min) / (max - min) * 100, round(0); 50 when max = min;
\* None where the tile has no price
land_price_score(price, prices) ==
    IF price = None THEN None
    ELSE IF SetMax(prices) > SetMin(prices)
         THEN Some(RoundHalfEven(100 * (SetMax(prices) - Get(price)),
                                 SetMax(prices) - SetMin(prices)))
         ELSE Some(50)

\* Variant: the same sum without clip(0, 100).
planning_score_unclipped(zoning_tier, lps, precedent, pct_residential) ==
    LET base == IF lps # None THEN 60 * zoning_tier + 40 * Get(lps) ELSE 100 * zoning_tier
        bonus == IF precedent > 40 THEN 1000 ELSE 0
        penalty == IF pct_residential > 0 THEN 2000 ELSE 0
    IN  base + bonus - penalty

\* base = 0.6 zoning_tier + 0.4 land_price_score (zoning_tier alone without a
\* price), + 10 if planning_precedent > 40, - 20 if pct_residential > 0,
\* clip(0, 100), round(2)
planning_score(zoning_tier, lps, precedent, pct_residential) ==
    LET base == IF lps # None THEN 60 * zoning_tier + 40 * Get(lps) ELSE 100 * zoning_tier
        bonus == IF precedent > 40 THEN 1000 ELSE 0
        penalty == IF pct_residential > 0 THEN 2000 ELSE 0
    IN  Clip(base + bonus - penalty, 0, 10000)

compose_planning_scores(src, tl) ==
    LET price(t) == IF src.has_ppr THEN src.price[CellOf(t)] ELSE None
        prices == UNION {price(t) : t \in tl}
    IN  [t \in tl |->
            LET lps == land_price_score(price(t), prices)
                prec == planning_precedent(src.dc_nearby[CellOf(t)])
            IN  [score |-> planning_score(src.zoning_tier[CellOf(t)], lps, prec,
                                          src.pct_residential[CellOf(t)]),
                 zoning_tier |-> src.zoning_tier[CellOf(t)],
                 planning_precedent |-> prec,
                 pct_residential |-> src.pct_residential[CellOf(t)],
                 land_price_score |-> lps,
                 avg_price_per_sqm_eur |-> price(t)]]

\* the 'applications' column exploded: one row per application inside a tile
planning_application_rows(src, tl) ==
    UNION {{[tile_id |-> t, app_ref |-> a] : a \in src.applications[CellOf(t)]} : t \in tl}

\* write_land_price_metric_ranges: min and max of the prices that are not
\* null; no write when there is none
land_price_metric_ranges(src, tl) ==
    LET prices == UNION {IF src.has_ppr THEN src.price[CellOf(t)] ELSE None : t \in tl}
    IN  IF prices = {} THEN EmptyTable
        ELSE <<"planning", "avg_price_per_sqm_eur">> :> Range(prices)

\* upsert_pins_planning: a pin per Industrial/Enterprise parcel (the zoning
\* that gives a tile a zoning_tier of 80 or more) and per application
planning_pin_features(src) ==
    {[name |-> "zoning_parcel", cell |-> c] : c \in {d \in Cells : src.zoning_tier[d] >= 80}}
    \cup UNION {{[name |-> a, cell |-> c] : a \in src.applications[c]} : c \in Cells}

\* ------------------------------------------------------ missing source data
\* A column of a pipeline's DataFrame, by cell, with None where the tile has
\* no raster value or no matching feature.

\* Series.median(): the median of the values that are not null (the mean of
\* the middle pair when their number is even), NaN when there is none
median(col) ==
    LET K == {c \in DOMAIN col : col[c] # None}
        val(c) == Get(col[c])
        rank(c) == Cardinality({d \in K : val(d) < val(c) \/ (val(d) = val(c) /\ d < c)}) + 1
        at(r) == val(CHOOSE c \in K : rank(c) = r)
        n == Cardinality(K)
    IN  IF n = 0 THEN None
        ELSE IF n % 2 = 1 THEN Some(at((n + 1) \div 2))
        ELSE Some((at(n \div 2) + at(n \div 2 + 1)) \div 2)

\* Variant: the column is left as it is.
fillna_skip(col, v) == col

\* Series.fillna(v); a NaN v fills nothing
fillna(col, v) == [c \in DOMAIN col |-> IF col[c] = None THEN v ELSE col[c]]

\* Variant: a column without a range normalised to 0.
norm_or_0(col, c) ==
    LET vals == UNION {col[d] : d \in DOMAIN col}
    IN  IF vals # {} /\ SetMax(vals) - SetMin(vals) > 0
        THEN IF col[c] = None THEN None
             ELSE Some(MinMaxNorm(Get(col[c]), SetMin(vals), SetMax(vals)))
        ELSE Some(<<0, 1>>)

\* 100 * (x - x.min()) / range if range > 0 else 50.0, where min() and max()
\* skip NaN and a NaN range is not > 0
norm_or_50(col, c) ==
    LET vals == UNION {col[d] : d \in DOMAIN col}
    IN  IF vals # {} /\ SetMax(vals) - SetMin(vals) > 0
        THEN IF col[c] = None THEN None
             ELSE Some(MinMaxNorm(Get(col[c]), SetMin(vals), SetMax(vals)))
        ELSE Some(<<50, 1>>)

\* compute_energy_scores over columns with missing values: wind and solar
\* filled with their medians, renewable_score with 50; a NaN operand gives a
\* NaN score, which clip and round keep
energy_score_column(src) ==
    LET wind == fillna(src.wind, median(src.wind))
        solar == fillna(src.solar, median(src.solar))
        renew == fillna(src.renewable_score, Some(50))
    IN  [c \in Cells |->
            LET wn == norm_or_50(wind, c)
                sn == norm_or_50(solar, c)
            IN  IF wn = None \/ sn = None \/ renew[c] = None THEN None
                ELSE Some(energy_score(Get(wn), Get(sn), src.grid_proximity, Get(renew[c])))]

\* compute_cooling_scores over columns with missing values: temperature and
\* rainfall filled with their medians, water_proximity with 0
cooling_score_column(src) ==
    LET temp == fillna(src.temperature, median(src.temperature))
        rain == fillna(src.rainfall, median(src.rainfall))
        water_prox == fillna(src.water_proximity, Some(0))
    IN  [c \in Cells |->
            LET tn == norm_or_50(temp, c)
                rn == norm_or_50(rain, c)
            IN  IF tn = None \/ rn = None \/ water_prox[c] = None THEN None
                ELSE Some(cooling_score(Get(tn), Get(rn), Get(water_prox[c])))]

\* compute_connectivity_scores over the outer merge of its three frames:
\* each sub-score filled with 0
connectivity_score_column(src) ==
    LET broadband == fillna(src.broadband, Some(0))
        ix_distance == fillna(src.ix_distance, Some(0))
        road_access == fillna(src.road_access, Some(0))
    IN  [c \in Cells |->
            IF broadband[c] = None \/ ix_distance[c] = None \/ road_access[c] = None
            THEN None
            ELSE Some(connectivity_score(Get(broadband[c]), Get(ix_distance[c]),
                                         Get(road_access[c])))]

\* ------------------------------------------------------------ environment

TILE_SIZE_M2 == TILE_SIZE_M * TILE_SIZE_M

NoDesignation ==
    [sac_area |-> 0, spa_area |-> 0, nha_area |-> 0, pnha_area |-> 0,
     current_flood |-> FALSE, future_flood |-> FALSE, landslide |-> "low"]

\* Source layers of one environment run, by cell: the area (m2) of the cell's
\* intersection with the polygons of each designation type as they are in the
\* source file, whether a flood extent intersects it, and the majority
\* landslide class.
EnvLayouts ==
    { [c \in Cells |->
          IF c = 1
          THEN [NoDesignation EXCEPT !.sac_area = 1, !.landslide = "medium"]
          ELSE [NoDesignation EXCEPT !.nha_area = TILE_SIZE_M2, !.future_flood = TRUE,
                                     !.landslide = "none"]],
      [c \in Cells |->
          IF c = 1
          THEN [NoDesignation EXCEPT !.current_flood = TRUE, !.landslide = "high"]
          ELSE [NoDesignation EXCEPT !.spa_area = 2500000, !.pnha_area = 600000]] }

\* upsert_pins_environment: a pin per feature of the sac, spa, nha and
\* flood_current layers as they are in the source files
environment_pin_features(source) ==
    {[name |-> "sac", cell |-> c] : c \in {d \in Cells : source[d].sac_area > 0}}
    \cup {[name |-> "spa", cell |-> c] : c \in {d \in Cells : source[d].spa_area > 0}}
    \cup {[name |-> "nha", cell |-> c] : c \in {d \in Cells : source[d].nha_area > 0}}
    \cup {[name |-> "flood_current", cell |-> c] : c \in {d \in Cells : source[d].current_flood}}

\* What simplification to a 250 m tolerance can make of an overlap of area a:
\* a part of a polygon that reaches into the tile by less than the tolerance
\* may be cut away or kept, depending on the polygon's vertices.
simplified_areas(a) ==
    IF 0 < a /\ a <= SIMPLIFY_TOLERANCE * SIMPLIFY_TOLERANCE THEN {0, a} ELSE {a}

\* what one cell's designation overlaps may become
prep_cell(d) ==
    {[d EXCEPT !.sac_area = sac, !.spa_area = spa, !.nha_area = nha, !.pnha_area = pnha] :
        sac \in simplified_areas(d.sac_area), spa \in simplified_areas(d.spa_area),
        nha \in simplified_areas(d.nha_area), pnha \in simplified_areas(d.pnha_area)}

\* _prep_vector on the designation layers: the layouts that
\* compute_designation_overlaps may see for a source layout
prep_vector(layout) ==
    {p \in [Cells -> UNION {prep_cell(layout[c]) : c \in Cells}] :
        \A c \in Cells : p[c] \in prep_cell(layout[c])}

\* round(min(100, area / TILE_SIZE_M2 * 100), 2), in hundredths of a percent
pct_overlap(area) ==
    LET a == 100 * Min2(area, TILE_SIZE_M2)
    IN  100 * (a \div TILE_SIZE_M2) + RoundHalfEven(100 * (a % TILE_SIZE_M2), TILE_SIZE_M2)

\* rows of one designation type: one per tile whose intersection has area > 0
compute_type_overlaps(layout, tl, des_type) ==
    LET area(t) == CASE des_type = "SAC" -> layout[CellOf(t)].sac_area
                     [] des_type = "SPA" -> layout[CellOf(t)].spa_area
                     [] des_type = "NHA" -> layout[CellOf(t)].nha_area
                     [] OTHER -> layout[CellOf(t)].pnha_area
    IN  {[tile_id |-> t, designation_type |-> des_type, pct_overlap |-> pct_overlap(area(t))] :
            t \in {u \in tl : area(u) > 0}}

\* all_rows of compute_designation_overlaps: the exploded 'designations' column
designation_rows(layout, tl) ==
    UNION {compute_type_overlaps(layout, tl, ty) : ty \in {"SAC", "SPA", "NHA", "pNHA"}}

\* Variant: the reasons tested in the order current flood zone, SPA, SAC.
exclusion_reason_flood_first(hard, sac, spa, cur) ==
    IF ~hard THEN NULL
    ELSE IF cur THEN "Current flood zone"
    ELSE IF spa THEN "SPA overlap"
    ELSE IF sac THEN "SAC overlap"
    ELSE "Hard exclusion"

\* _exclusion_reason: first match wins
exclusion_reason(hard, sac, spa, cur) ==
    IF ~hard THEN NULL
    ELSE IF sac THEN "SAC overlap"
    ELSE IF spa THEN "SPA overlap"
    ELSE IF cur THEN "Current flood zone"
    ELSE "Hard exclusion"

\* Variant: the score zeroed for SAC / SPA only, not for the current flood zone.
environment_score_sac_spa_only(sac, spa, nha, pnha, cur, fut, landslide) ==
    LET s0 == 10000
        s1 == IF landslide = "medium" THEN s0 - 3000 ELSE s0
        s2 == IF fut THEN Min2(s1, 4000) ELSE s1
        s3 == IF nha \/ pnha THEN Min2(s2, 2000) ELSE s2
        s4 == IF sac \/ spa THEN 0 ELSE s3
    IN  Clip(s4, 0, 10000)

\* Variant: the landslide penalty applied after the two caps.
environment_score_penalty_last(sac, spa, nha, pnha, cur, fut, landslide) ==
    LET s0 == 10000
        s1 == IF fut THEN Min2(s0, 4000) ELSE s0
        s2 == IF nha \/ pnha THEN Min2(s1, 2000) ELSE s1
        s3 == IF landslide = "medium" THEN s2 - 3000 ELSE s2
        s4 == IF sac \/ spa \/ cur THEN 0 ELSE s3
    IN  Clip(s4, 0, 10000)

\* the score column of compose_environment_scores, in hundredths
environment_score(sac, spa, nha, pnha, cur, fut, landslide) ==
    LET s0 == 10000
        s1 == IF landslide = "medium" THEN s0 - 3000 ELSE s0
        s2 == IF fut THEN Min2(s1, 4000) ELSE s1
        s3 == IF nha \/ pnha THEN Min2(s2, 2000) ELSE s2
        s4 == IF sac \/ spa \/ cur THEN 0 ELSE s3
    IN  Clip(s4, 0, 10000)

compose_environment_scores(layout, tl) ==
    [t \in tl |->
        LET des == designation_rows(layout, {t})
            is(ty) == \E r \in des : r.designation_type = ty
            cur == layout[CellOf(t)].current_flood
            fut == layout[CellOf(t)].future_flood
            hard == is("SAC") \/ is("SPA") \/ cur
        IN  [score |-> environment_score(is("SAC"), is("SPA"), is("NHA"), is("pNHA"),
                                         cur, fut, layout[CellOf(t)].landslide),
             has_hard_exclusion |-> hard,
             exclusion_reason |-> exclusion_reason(hard, is("SAC"), is("SPA"), cur),
             intersects_sac |-> is("SAC"),
             intersects_spa |-> is("SPA"),
             intersects_nha |-> is("NHA"),
             intersects_pnha |-> is("pNHA"),
             intersects_current_flood |-> cur,
             intersects_future_flood |-> fut,
             landslide_susceptibility |-> layout[CellOf(t)].landslide]]

\* Delete-then-insert of a child table (tile_designation_overlaps,
\* tile_planning_applications): nothing at all when the run produced no rows;
\* otherwise, batch by batch over the tiles that have rows in this run, delete
\* the tile's rows and insert the new ones; one commit after the loop.
upsert_child_rows(table, rows, tl, failAt) ==
    LET affected_tile_ids == {r.tile_id : r \in rows}
    IN  IF rows = {} THEN table
        ELSE IF FirstFailure(affected_tile_ids, tl, failAt) # 0 THEN table
        ELSE {r \in table : r.tile_id \notin affected_tile_ids} \cup rows

\* --------------------------------------------------------------- composite

Score0(table, t) == IF t \in DOMAIN table THEN table[t].score ELSE 0

\* Variant: tiles LEFT JOIN the five sort tables, a missing score read as 0.
load_sort_scores_left_join ==
    [t \in tiles |->
        [energy_score |-> Score0(energy_scores, t),
         environment_score |-> Score0(environment_scores, t),
         cooling_score |-> Score0(cooling_scores, t),
         connectivity_score |-> Score0(connectivity_scores, t),
         planning_score |-> Score0(planning_scores, t),
         has_hard_exclusion |-> IF t \in DOMAIN environment_scores
                                THEN environment_scores[t].has_hard_exclusion ELSE FALSE,
         exclusion_reason |-> IF t \in DOMAIN environment_scores
                              THEN environment_scores[t].exclusion_reason ELSE NULL]]

\* compute_composite.load_sort_scores: tiles INNER JOIN the five sort tables
load_sort_scores ==
    [t \in tiles \cap DOMAIN energy_scores \cap DOMAIN environment_scores
             \cap DOMAIN cooling_scores \cap DOMAIN connectivity_scores
             \cap DOMAIN planning_scores |->
        [energy_score |-> energy_scores[t].score,
         environment_score |-> environment_scores[t].score,
         cooling_score |-> cooling_scores[t].score,
         connectivity_score |-> connectivity_scores[t].score,
         planning_score |-> planning_scores[t].score,
         has_hard_exclusion |-> environment_scores[t].has_hard_exclusion,
         exclusion_reason |-> environment_scores[t].exclusion_reason]]

\* Variant: the weighted sum without the hard exclusion override.
overall_score_no_override(r, w) ==
    LET sum == r.energy_score * w.energy + r.environment_score * w.environment
               + r.cooling_score * w.cooling + r.connectivity_score * w.connectivity
               + r.planning_score * w.planning
    IN  RoundHalfEven(Clip(sum, 0, 10000 * 10000), 10000)

\* Variant: the mean of the five scores, whatever the weights.
overall_score_equal_weights(r, w) ==
    LET sum == 2000 * (r.energy_score + r.environment_score + r.cooling_score
                       + r.connectivity_score + r.planning_score)
        excl == IF r.has_hard_exclusion THEN 0 ELSE sum
    IN  RoundHalfEven(Clip(excl, 0, 10000 * 10000), 10000)

\* the weighted sum, hard exclusion override, clip(0, 100), round(2):
\* scores in hundredths times weights in ten-thousandths, back to hundredths
overall_score(r, w) ==
    LET sum == r.energy_score * w.energy + r.environment_score * w.environment
               + r.cooling_score * w.cooling + r.connectivity_score * w.connectivity
               + r.planning_score * w.planning
        excl == IF r.has_hard_exclusion THEN 0 ELSE sum
    IN  RoundHalfEven(Clip(excl, 0, 10000 * 10000), 10000)

\* Variant: a distance of 0 where there is no data centre to measure to.
compute_nearest_data_centre_km_zero(pin_table, tl) ==
    LET data_centres == {q \in pin_table : q.type = "data_centre"}
    IN  [t \in tl |->
            IF data_centres = {} THEN Some(0)
            ELSE Some(SetMin({IF CellOf(t) >= q.cell THEN CellOf(t) - q.cell
                              ELSE q.cell - CellOf(t) : q \in data_centres}))]

\* the Series tile_id -> distance to the nearest pins_overall row of type
\* data_centre, one entry per row of tiles: NaN when there is no such pin.
\* Distances are counted in tile widths along the lattice
compute_nearest_data_centre_km(pin_table, tl) ==
    LET data_centres == {q \in pin_table : q.type = "data_centre"}
    IN  [t \in tl |->
            IF data_centres = {} THEN None
            ELSE Some(SetMin({IF CellOf(t) >= q.cell THEN CellOf(t) - q.cell
                              ELSE q.cell - CellOf(t) : q \in data_centres}))]

\* main, step 4: overall_df.merge(dc_km, on tile_id, how="left"); NaN is
\* written as NULL
merge_nearest(overall_df, dc_km) ==
    [t \in DOMAIN overall_df |->
        [nearest_data_centre_km |-> IF t \in DOMAIN dc_km THEN dc_km[t] ELSE None]
        @@ overall_df[t]]

compute_overall_scores(df, w) ==
    [t \in DOMAIN df |->
        [score |-> overall_score(df[t], w),
         energy_score |-> df[t].energy_score,
         environment_score |-> df[t].environment_score,
         cooling_score |-> df[t].cooling_score,
         connectivity_score |-> df[t].connectivity_score,
         planning_score |-> df[t].planning_score,
         has_hard_exclusion |-> df[t].has_hard_exclusion,
         exclusion_reason |-> df[t].exclusion_reason]]

\* ------------------------------------------------------------------ weights

Weights(e, env, c, cn, p) ==
    [energy |-> e, environment |-> env, cooling |-> c, connectivity |-> cn, planning |-> p]

WeightSum(w) == w.energy + w.environment + w.cooling + w.connectivity + w.planning

\* config.DEFAULT_WEIGHTS, the row the schema seeds
W_default == Weights(2500, 2000, 1500, 2500, 1500)
\* a row installed by direct SQL whose sum is 2.5
W_over == Weights(5000, 5000, 5000, 5000, 5000)
\* a request body whose sum is 1.0005
W_off == Weights(2505, 2000, 1500, 2500, 1500)

\* composite_weights before sql/tables.sql has seeded its single row
NoRow == << >>

\* the composite_weights row the pipeline may find before any PUT
SeedWeights == {W_default, W_over}
\* request bodies of PUT /api/weights
PutBodies == {W_default, W_off}

\* Variant: the tolerance of the warning of compute_composite, 0.001.
WeightsUpdateValidLoose(w) ==
    /\ \A f \in DOMAIN w : 0 <= w[f] /\ w[f] <= 10000
    /\ ~(WeightSum(w) - 10000 > 10 \/ 10000 - WeightSum(w) > 10)

\* WeightsUpdate: each field in [0, 1] and abs(total - 1.0) <= 0.0001
WeightsUpdateValid(w) ==
    /\ \A f \in DOMAIN w : 0 <= w[f] /\ w[f] <= 10000
    /\ ~(WeightSum(w) - 10000 > 1 \/ 10000 - WeightSum(w) > 1)

\* Variant: any X-Admin-Key header is accepted, only a missing one refused.
check_admin_key_any_header(expected, x_admin_key) ==
    IF expected = "" THEN 500
    ELSE IF x_admin_key = None THEN 401
    ELSE 200

\* _check_admin_key: the status it raises, 200 when it raises nothing.
\* expected is os.environ.get("ADMIN_KEY", ""); x_admin_key is the header, or
\* the empty set when the request has none
check_admin_key(expected, x_admin_key) ==
    IF expected = "" THEN 500
    ELSE IF x_admin_key # Some(expected) THEN 401
    ELSE 200

\* update_weights with its dependencies: the status of the response and the
\* composite_weights row afterwards. The key is checked before the body is
\* validated; the UPDATE ... WHERE id = 1 changes no row of an empty table
update_weights(expected, x_admin_key, body, row) ==
    LET auth == check_admin_key(expected, x_admin_key)
    IN  IF auth # 200 THEN [status |-> auth, row |-> row]
        ELSE IF ~WeightsUpdateValid(body) THEN [status |-> 422, row |-> row]
        ELSE [status |-> 200, row |-> IF row = NoRow THEN row ELSE body]

\* ------------------------------------------------------------------- state

\* what a composite run printed: how it ended ("none" | "running" | "exit1" |
\* "ok" | "error"), the count of tiles missing from the join, whether the
\* weight-sum WARNING appeared, the rows upserted, and the batch that raised
NoOutput ==
    [status |-> "none", missing |-> 0, warned |-> FALSE, n |-> 0, failed_batch |-> 0]

NoCall == [fn |-> "none"]

Init ==
    /\ tiles = {}
    /\ tile_seq = 0
    /\ grid_pc = "idle"
    /\ grids = 0
    /\ energy_scores = EmptyTable
    /\ environment_scores = EmptyTable
    /\ cooling_scores = EmptyTable
    /\ connectivity_scores = EmptyTable
    /\ planning_scores = EmptyTable
    /\ tile_designation_overlaps = {}
    /\ tile_planning_applications = {}
    /\ overall_scores = EmptyTable
    /\ composite_weights \in SeedWeights
    /\ comp_pc = "idle"
    /\ weights = NULL
    /\ scores_df = EmptyTable
    /\ comp_out = NoOutput
    /\ metric_ranges = EmptyTable
    /\ pins = NoPins
    /\ pins_overall = {}
    /\ pipe_pc = NoRuns
    /\ fn_in = NoCall
    /\ fn_out = NoCall

\* ------------------------------------------------------------------- grid

\* Variant: the truncation does not reach overall_scores.
TruncateTilesKeepOverall ==
    /\ grid_pc = "idle"
    /\ grids < MaxGrids
    /\ grid_pc' = "truncated"
    /\ tiles' = {}
    /\ energy_scores' = EmptyTable
    /\ environment_scores' = EmptyTable
    /\ cooling_scores' = EmptyTable
    /\ connectivity_scores' = EmptyTable
    /\ planning_scores' = EmptyTable
    /\ tile_designation_overlaps' = {}
    /\ tile_planning_applications' = {}
    /\ pins' = NoPins
    /\ UNCHANGED <<pins_overall, fnVars, pipe_pc, metric_ranges, tile_seq, grids, overall_scores, composite_weights, compVars>>

\* load_tiles_to_db, first transaction: TRUNCATE tiles CASCADE empties tiles
\* and every table that references it: the score tables, their child tables,
\* overall_scores and the pins tables (tile_id); metric_ranges has no tile_id
TruncateTiles ==
    /\ grid_pc = "idle"
    /\ grids < MaxGrids
    /\ grid_pc' = "truncated"
    /\ tiles' = {}
    /\ energy_scores' = EmptyTable
    /\ environment_scores' = EmptyTable
    /\ cooling_scores' = EmptyTable
    /\ connectivity_scores' = EmptyTable
    /\ planning_scores' = EmptyTable
    /\ tile_designation_overlaps' = {}
    /\ tile_planning_applications' = {}
    /\ overall_scores' = EmptyTable
    /\ pins' = NoPins
    /\ UNCHANGED <<pins_overall, fnVars, pipe_pc, metric_ranges, tile_seq, grids, composite_weights, compVars>>

\* load_tiles_to_db, second transaction: the new grid, with fresh SERIAL ids.
\* An exception in execute_values ends the function through finally:
\* raw_conn.close() with nothing committed; the TRUNCATE was committed before,
\* and the sequence values the INSERT drew are not given back.
InsertTiles ==
    /\ grid_pc = "truncated"
    /\ grid_pc' = "idle"
    /\ \E raised \in BOOLEAN :
           tiles' = IF raised THEN {} ELSE (tile_seq + 1)..(tile_seq + NTiles)
    /\ tile_seq' = tile_seq + NTiles
    /\ grids' = grids + 1
    /\ UNCHANGED <<pins_overall, fnVars, pipe_pc, sideVars, sortVars, childVars, overall_scores, composite_weights, compVars>>

\* ------------------------------------------------------- category pipelines

\* an injected failure of a run's scores upsert: none (0), or in the last
\* batch of the loop
FailPoints == {0, NumBatches(tiles)}

\* the side tables after the steps of a main that follow its scores upsert:
\* nothing when that upsert raised, and nothing to measure over an empty grid
Ran(scores, failAt) == tiles # {} /\ FirstFailure(DOMAIN scores, tiles, failAt) = 0

\* energy main: upsert_energy_scores, write_metric_ranges, upsert_pins_energy
EnergyIngest ==
    \E src \in EnergySources, failAt \in FailPoints :
        LET scores == compute_energy_scores(src, tiles)
        IN  /\ energy_scores' = TxnUpsert(energy_scores, scores, tiles, failAt)
            /\ metric_ranges' =
                   IF Ran(scores, failAt)
                   THEN write_metric_ranges(metric_ranges, energy_metric_ranges(src, tiles))
                   ELSE metric_ranges
            /\ pins' =
                   IF Ran(scores, failAt)
                   THEN [pins EXCEPT !["energy"] =
                            upsert_pins(@, pin_rows(energy_pin_features(src), tiles), FALSE)]
                   ELSE pins
            /\ UNCHANGED <<pins_overall, fnVars, pipe_pc, gridVars, environment_scores, cooling_scores,
                           connectivity_scores, planning_scores, childVars, overall_scores,
                           composite_weights, compVars>>

\* renewable.main: SystemExit(1) when energy_scores is empty; otherwise the
\* renewable scores of all tiles, then update_energy_scores, whose exception
\* rolls the whole update back and ends the run, then write_metric_ranges
RenewableUpdate ==
    \E src \in RenewableSources, failed \in BOOLEAN :
        LET ran == DOMAIN energy_scores # {} /\ ~failed
        IN  /\ energy_scores' =
                   IF ran
                   THEN update_energy_scores(energy_scores,
                                             compute_renewable_scores(src, tiles),
                                             metric_ranges)
                   ELSE energy_scores
            /\ metric_ranges' =
                   IF ran
                   THEN write_metric_ranges(metric_ranges, renewable_metric_ranges(src, tiles))
                   ELSE metric_ranges
            /\ UNCHANGED <<pins_overall, fnVars, pipe_pc, pins, gridVars, environment_scores,
                           cooling_scores, connectivity_scores, planning_scores, childVars,
                           overall_scores, composite_weights, compVars>>

\* cooling main: upsert_cooling_scores, write_metric_ranges, upsert_pins_cooling
CoolingIngest ==
    \E src \in CoolingSources, failAt \in FailPoints :
        LET scores == compute_cooling_scores(src, tiles)
        IN  /\ cooling_scores' = TxnUpsert(cooling_scores, scores, tiles, failAt)
            /\ metric_ranges' =
                   IF Ran(scores, failAt)
                   THEN write_metric_ranges(metric_ranges, cooling_metric_ranges(src, tiles))
                   ELSE metric_ranges
            /\ pins' =
                   IF Ran(scores, failAt)
                   THEN [pins EXCEPT !["cooling"] =
                            upsert_pins(@, pin_rows(cooling_pin_features(src), tiles), FALSE)]
                   ELSE pins
            /\ UNCHANGED <<pins_overall, fnVars, pipe_pc, gridVars, energy_scores, environment_scores,
                           connectivity_scores, planning_scores, childVars, overall_scores,
                           composite_weights, compVars>>

\* connectivity main: upsert_connectivity_scores, upsert_pins_connectivity
ConnectivityIngest ==
    \E src \in ConnectivitySources, failAt \in FailPoints :
        LET scores == compute_connectivity_scores(src, tiles)
        IN  /\ connectivity_scores' = TxnUpsert(connectivity_scores, scores, tiles, failAt)
            /\ pins' =
                   IF Ran(scores, failAt)
                   THEN [pins EXCEPT !["connectivity"] =
                            upsert_pins(@, pin_rows(connectivity_pin_features(src), tiles),
                                        FALSE)]
                   ELSE pins
            /\ UNCHANGED <<pins_overall, fnVars, pipe_pc, metric_ranges, gridVars, energy_scores,
                           environment_scores, cooling_scores, planning_scores, childVars,
                           overall_scores, composite_weights, compVars>>

\* environment main: the layers prepared, the scores composed, then
\* upsert_environment_scores, then upsert_designation_overlaps, then
\* upsert_pins_environment; an exception in the first ends the run before
\* the others
EnvironmentIngest ==
    \E source \in EnvLayouts, failAt \in FailPoints :
      \E layout \in prep_vector(source) :
        LET scores == compose_environment_scores(layout, tiles)
            failed == FirstFailure(DOMAIN scores, tiles, failAt) # 0
        IN  /\ environment_scores' = TxnUpsert(environment_scores, scores, tiles, failAt)
            /\ tile_designation_overlaps' =
                   IF failed THEN tile_designation_overlaps
                   ELSE upsert_child_rows(tile_designation_overlaps,
                                          designation_rows(layout, tiles), tiles, 0)
            /\ pins' =
                   IF Ran(scores, failAt)
                   THEN [pins EXCEPT !["environment"] =
                            upsert_pins(@, pin_rows(environment_pin_features(source), tiles),
                                        FALSE)]
                   ELSE pins
            /\ UNCHANGED <<pins_overall, fnVars, pipe_pc, metric_ranges, gridVars, energy_scores,
                           cooling_scores, connectivity_scores, planning_scores,
                           tile_planning_applications, overall_scores, composite_weights,
                           compVars>>

\* planning main: upsert_planning_scores, upsert_planning_applications,
\* upsert_pins_planning, write_land_price_metric_ranges
PlanningIngest ==
    \E src \in PlanningSources, failAt \in FailPoints :
        LET scores == compose_planning_scores(src, tiles)
            failed == FirstFailure(DOMAIN scores, tiles, failAt) # 0
        IN  /\ planning_scores' = TxnUpsert(planning_scores, scores, tiles, failAt)
            /\ tile_planning_applications' =
                   IF failed THEN tile_planning_applications
                   ELSE upsert_child_rows(tile_planning_applications,
                                          planning_application_rows(src, tiles), tiles, 0)
            /\ pins' =
                   IF Ran(scores, failAt)
                   THEN [pins EXCEPT !["planning"] =
                            upsert_pins(@, pin_rows(planning_pin_features(src), tiles), FALSE)]
                   ELSE pins
            /\ metric_ranges' =
                   IF Ran(scores, failAt)
                   THEN write_metric_ranges(metric_ranges, land_price_metric_ranges(src, tiles))
                   ELSE metric_ranges
            /\ UNCHANGED <<pins_overall, fnVars, pipe_pc, gridVars, energy_scores, environment_scores,
                           cooling_scores, connectivity_scores, tile_designation_overlaps,
                           overall_scores, composite_weights, compVars>>

\* --------------------------------------------------- composite aggregator

\* main, steps 1 and 2: load_weights, which raises RuntimeError when the table
\* has no row, with the WARNING when
\* abs(w_sum - 1.0) > 0.001, then load_sort_scores with its count of tiles
\* missing from the join; SystemExit(1) when the join is empty
CompositeLoad ==
    /\ comp_pc = "idle"
    /\ LET df == load_sort_scores
           out == [NoOutput EXCEPT
                      !.warned = (WeightSum(composite_weights) - 10000 > 10
                                  \/ 10000 - WeightSum(composite_weights) > 10),
                      !.missing = Cardinality(tiles) - Cardinality(DOMAIN df)]
       IN  IF composite_weights = NoRow
           THEN /\ comp_pc' = "idle"
                /\ weights' = NULL
                /\ scores_df' = EmptyTable
                /\ comp_out' = [NoOutput EXCEPT !.status = "error"]
           ELSE IF DOMAIN df = {}
           THEN /\ comp_pc' = "idle"
                /\ weights' = NULL
                /\ scores_df' = EmptyTable
                /\ comp_out' = [out EXCEPT !.status = "exit1"]
           ELSE /\ comp_pc' = "loaded"
                /\ weights' = composite_weights
                /\ scores_df' = df
                /\ comp_out' = [out EXCEPT !.status = "running"]
    /\ UNCHANGED <<pins_overall, fnVars, pipe_pc, sideVars, gridVars, sortVars, childVars, overall_scores, composite_weights>>

\* Variant: the weights read again from composite_weights when the scores are
\* computed, after the join was loaded.
CompositeUpsertRereads ==
    /\ comp_pc = "loaded"
    /\ \E failAt \in 0..NumBatches(DOMAIN scores_df) :
        LET overall_df == merge_nearest(
                              compute_overall_scores(scores_df, composite_weights),
                              compute_nearest_data_centre_km(pins_overall, tiles))
            k == FirstFailure(DOMAIN overall_df, tiles, failAt)
        IN  /\ overall_scores' = TxnUpsert(overall_scores, overall_df, tiles, failAt)
            /\ comp_out' =
                   IF k = 0
                   THEN [comp_out EXCEPT !.status = "ok",
                                         !.n = Cardinality(DOMAIN overall_df)]
                   ELSE [comp_out EXCEPT !.status = "error", !.failed_batch = k]
    /\ comp_pc' = "idle"
    /\ weights' = NULL
    /\ scores_df' = EmptyTable
    /\ UNCHANGED <<pins_overall, fnVars, pipe_pc, sideVars, gridVars, sortVars, childVars, composite_weights>>

\* main, steps 3 to 5: compute_overall_scores, compute_nearest_data_centre_km
\* merged in, then upsert_overall_scores
CompositeUpsert ==
    /\ comp_pc = "loaded"
    /\ \E failAt \in 0..NumBatches(DOMAIN scores_df) :
        LET overall_df == merge_nearest(
                              compute_overall_scores(scores_df, weights),
                              compute_nearest_data_centre_km(pins_overall, tiles))
            k == FirstFailure(DOMAIN overall_df, tiles, failAt)
        IN  /\ overall_scores' = TxnUpsert(overall_scores, overall_df, tiles, failAt)
            /\ comp_out' =
                   IF k = 0
                   THEN [comp_out EXCEPT !.status = "ok",
                                         !.n = Cardinality(DOMAIN overall_df)]
                   ELSE [comp_out EXCEPT !.status = "error", !.failed_batch = k]
    /\ comp_pc' = "idle"
    /\ weights' = NULL
    /\ scores_df' = EmptyTable
    /\ UNCHANGED <<pins_overall, fnVars, pipe_pc, sideVars, gridVars, sortVars, childVars, composite_weights>>

\* ------------------------------------------------------------ PUT /api/weights

\* update_weights: 401 on a wrong key, 422 on an invalid body, otherwise the
\* UPDATE of the single composite_weights row (WHERE id = 1: of no row when
\* the table is empty)
\* the ADMIN_KEY of the deployment, and the X-Admin-Key headers of a request
ADMIN_KEY == "testkey"
AdminKeyHeaders == {None, Some("wrongkey"), Some(ADMIN_KEY)}

\* Variant: the handler rescores overall_scores with the weights it stored.
UpdateWeightsRecompute ==
    \E x_admin_key \in AdminKeyHeaders, body \in PutBodies :
        /\ composite_weights' =
               update_weights(ADMIN_KEY, x_admin_key, body, composite_weights).row
        /\ overall_scores' =
               IF composite_weights' = NoRow THEN overall_scores
               ELSE [t \in DOMAIN overall_scores |->
                        [overall_scores[t] EXCEPT
                            !.score = overall_score(overall_scores[t], composite_weights')]]
        /\ UNCHANGED <<pins_overall, fnVars, pipe_pc, sideVars, gridVars, sortVars, childVars, compVars>>

UpdateWeights ==
    \E x_admin_key \in AdminKeyHeaders, body \in PutBodies :
        /\ composite_weights' =
               update_weights(ADMIN_KEY, x_admin_key, body, composite_weights).row
        /\ UNCHANGED <<pins_overall, fnVars, pipe_pc, sideVars, gridVars, sortVars, childVars, overall_scores, compVars>>

\* ------------------------------------------------------------ specification

Next ==
    \/ TruncateTiles
    \/ InsertTiles
    \/ EnergyIngest
    \/ EnvironmentIngest
    \/ CoolingIngest
    \/ ConnectivityIngest
    \/ PlanningIngest
    \/ CompositeLoad
    \/ CompositeUpsert
    \/ UpdateWeights

Spec == Init /\ [][Next]_vars

\* ------------------------------------------------------- repeated runs
\* The category scripts run again and again over one grid: the five ingest
\* scripts and energy/renewable.py, which updates the rows energy/ingest.py
\* wrote.

InitRerun ==
    /\ tiles = 1..NTiles
    /\ tile_seq = NTiles
    /\ grid_pc = "idle"
    /\ grids = 1
    /\ energy_scores = EmptyTable
    /\ environment_scores = EmptyTable
    /\ cooling_scores = EmptyTable
    /\ connectivity_scores = EmptyTable
    /\ planning_scores = EmptyTable
    /\ tile_designation_overlaps = {}
    /\ tile_planning_applications = {}
    /\ overall_scores = EmptyTable
    /\ composite_weights = W_default
    /\ comp_pc = "idle"
    /\ weights = NULL
    /\ scores_df = EmptyTable
    /\ comp_out = NoOutput
    /\ metric_ranges = EmptyTable
    /\ pins = NoPins
    /\ pins_overall = {}
    /\ pipe_pc = NoRuns
    /\ fn_in = NoCall
    /\ fn_out = NoCall

NextRerun ==
    \/ EnergyIngest
    \/ RenewableUpdate
    \/ EnvironmentIngest
    \/ CoolingIngest
    \/ ConnectivityIngest
    \/ PlanningIngest

SpecRerun == InitRerun /\ [][NextRerun]_vars

\* ---------------------------------------------------------- synthetic seed
\* seed_synthetic.py fills the five sort tables with random scores (numpy
\* seeded with 42) and computes overall_scores from them and the weights.

\* what the seeders draw, by cell, in hundredths: cell 1 is an SAC exclusion
SyntheticData ==
    [energy |-> [c \in Cells |-> 3000 + 1000 * c],
     environment |-> [c \in Cells |-> IF c = 1 THEN 0 ELSE 7000],
     cooling |-> [c \in Cells |-> 6000],
     connectivity |-> [c \in Cells |-> 2000 + 500 * c],
     planning |-> [c \in Cells |-> 8000],
     hard_mask |-> [c \in Cells |-> c = 1]]

\* the weights seed_overall computes with: the composite_weights row, or
\* 0.25, 0.25, 0.20, 0.15, 0.15 (energy, connectivity, environment, cooling,
\* planning) when there is no row
seed_weights(row) ==
    IF row # NoRow THEN row ELSE Weights(2500, 2000, 1500, 2500, 1500)

\* np.where(hard_mask, 0, clip(weighted, 0, 100)), rounded to 2 places
seed_overall(data, tl, row) ==
    [t \in tl |->
        LET c == CellOf(t)
            r == [energy_score |-> data.energy[c],
                  environment_score |-> data.environment[c],
                  cooling_score |-> data.cooling[c],
                  connectivity_score |-> data.connectivity[c],
                  planning_score |-> data.planning[c],
                  has_hard_exclusion |-> data.hard_mask[c],
                  exclusion_reason |-> IF data.hard_mask[c] THEN "SAC or flood zone"
                                       ELSE NULL]
        IN  [score |-> overall_score(r, seed_weights(row)),
             nearest_data_centre_km |-> None] @@ r]

\* seed_pins_overall: two data centres, Dublin and Cork
seed_pins_overall ==
    {[name |-> "Sample Data Centre Dublin", type |-> "data_centre", cell |-> 1],
     [name |-> "Sample Data Centre Cork", type |-> "data_centre", cell |-> NTiles]}

\* one seeded sort table: TRUNCATE, then a row per tile
seed_scores(col, tl) == [t \in tl |-> [score |-> col[CellOf(t)]]]

\* seed_environment: the excluded tiles carry the flag and the SAC reason
seed_environment(data, tl) ==
    [t \in tl |->
        [score |-> data.environment[CellOf(t)],
         has_hard_exclusion |-> data.hard_mask[CellOf(t)],
         exclusion_reason |-> IF data.hard_mask[CellOf(t)] THEN "SAC overlap" ELSE NULL]]

\* seed_synthetic.main: sys.exit(1) when tiles is empty; otherwise each sort
\* table truncated and filled, then overall_scores truncated and filled, then
\* pins_overall
SeedSynthetic ==
    /\ tiles # {}
    /\ energy_scores' = seed_scores(SyntheticData.energy, tiles)
    /\ environment_scores' = seed_environment(SyntheticData, tiles)
    /\ cooling_scores' = seed_scores(SyntheticData.cooling, tiles)
    /\ connectivity_scores' = seed_scores(SyntheticData.connectivity, tiles)
    /\ planning_scores' = seed_scores(SyntheticData.planning, tiles)
    /\ overall_scores' = seed_overall(SyntheticData, tiles, composite_weights)
    /\ pins_overall' = seed_pins_overall
    /\ UNCHANGED <<fnVars, pipe_pc, sideVars, gridVars, childVars, composite_weights, compVars>>

InitSeed ==
    /\ tiles = {}
    /\ tile_seq = 0
    /\ grid_pc = "idle"
    /\ grids = 0
    /\ energy_scores = EmptyTable
    /\ environment_scores = EmptyTable
    /\ cooling_scores = EmptyTable
    /\ connectivity_scores = EmptyTable
    /\ planning_scores = EmptyTable
    /\ tile_designation_overlaps = {}
    /\ tile_planning_applications = {}
    /\ overall_scores = EmptyTable
    /\ composite_weights \in SeedWeights \cup {NoRow}
    /\ comp_pc = "idle"
    /\ weights = NULL
    /\ scores_df = EmptyTable
    /\ comp_out = NoOutput
    /\ metric_ranges = EmptyTable
    /\ pins = NoPins
    /\ pins_overall = {}
    /\ pipe_pc = NoRuns
    /\ fn_in = NoCall
    /\ fn_out = NoCall

NextSeed ==
    \/ TruncateTiles
    \/ InsertTiles
    \/ SeedSynthetic
    \/ CompositeLoad
    \/ CompositeUpsert
    \/ UpdateWeights

SpecSeed == InitSeed /\ [][NextSeed]_vars

\* --------------------------------------------- category mains, interleaved
\* The five category mains run once each, at the same time, over one grid and
\* a store that earlier runs over older source files have filled. A main
\* checks its required files, reads its sources, and then runs its
\* transactions one after the other; each transaction may raise, which ends
\* the main.

\* Variant: the last file of each list is not checked.
RequiredFilesFewer(p) ==
    CASE p = "energy" -> {"WIND_ATLAS_FILE", "SOLAR_ATLAS_FILE"}
      [] p = "environment" -> {"NPWS_SAC_FILE", "NPWS_SPA_FILE", "NPWS_NHA_FILE",
                               "OPW_FLOOD_CURRENT_FILE", "OPW_FLOOD_FUTURE_FILE",
                               "GSI_LANDSLIDE_FILE"}
      [] p = "cooling" -> {"MET_EIREANN_TEMP_FILE", "MET_EIREANN_RAIN_FILE"}
      [] p = "connectivity" -> {"COMREG_BROADBAND_FILE"}
      [] p = "planning" -> {"MYPLAN_ZONING_FILE", "CSO_POPULATION_FILE"}

\* the required source files of each main (the paths it checks with exists())
RequiredFiles(p) ==
    CASE p = "energy" -> {"WIND_ATLAS_FILE", "SOLAR_ATLAS_FILE", "OSM_POWER_FILE"}
      [] p = "environment" -> {"NPWS_SAC_FILE", "NPWS_SPA_FILE", "NPWS_NHA_FILE",
                               "OPW_FLOOD_CURRENT_FILE", "OPW_FLOOD_FUTURE_FILE",
                               "GSI_LANDSLIDE_FILE"}
      [] p = "cooling" -> {"MET_EIREANN_TEMP_FILE", "MET_EIREANN_RAIN_FILE",
                           "EPA_RIVERS_FILE"}
      [] p = "connectivity" -> {"COMREG_BROADBAND_FILE", "OSM_ROADS_FILE"}
      [] p = "planning" -> {"MYPLAN_ZONING_FILE", "PLANNING_APPLICATIONS_FILE",
                            "CSO_POPULATION_FILE"}

\* missing = [p for p in required if not p.exists()]
missing(p, absent) == RequiredFiles(p) \cap absent

\* the files that may be absent when the mains start: none, or one file of
\* one main
AbsentFiles ==
    {[p \in Pipelines |-> {}]}
    \cup {[p \in Pipelines |-> IF p = q.sort THEN {q.file} ELSE {}] :
            q \in {[sort |-> "energy", file |-> "OSM_POWER_FILE"],
                   [sort |-> "environment", file |-> "GSI_LANDSLIDE_FILE"],
                   [sort |-> "cooling", file |-> "EPA_RIVERS_FILE"],
                   [sort |-> "connectivity", file |-> "OSM_ROADS_FILE"],
                   [sort |-> "planning", file |-> "PLANNING_APPLICATIONS_FILE"]}}

\* the transactions of each main after its scores upsert, in the order of
\* the calls
PipelineSteps ==
    [energy |-> <<"scores", "metric_ranges", "pins">>,
     environment |-> <<"scores", "child_rows", "pins">>,
     cooling |-> <<"scores", "metric_ranges", "pins">>,
     connectivity |-> <<"scores", "pins">>,
     planning |-> <<"scores", "child_rows", "pins", "metric_ranges">>]

\* the source files of this run, and of the earlier run that filled the store
EnergyRun == CHOOSE src \in EnergySources : TRUE
EnergyPrevious ==
    [EnergyRun EXCEPT !.wind = [c \in Cells |-> 5 + c],
                      !.grid_proximity = [c \in Cells |-> 70],
                      !.substations = {NTiles}]
CoolingRun == CHOOSE src \in CoolingSources : TRUE
CoolingPrevious ==
    [CoolingRun EXCEPT !.temperature = [c \in Cells |-> 9 + c], !.stations = {NTiles}]
ConnectivityRun == CHOOSE src \in ConnectivitySources : TRUE
ConnectivityPrevious ==
    [ConnectivityRun EXCEPT !.road_access = [c \in Cells |-> 25], !.exchanges = {NTiles}]
EnvironmentRunSource == CHOOSE source \in EnvLayouts : source[1].current_flood
EnvironmentPreviousSource == CHOOSE source \in EnvLayouts : ~source[1].current_flood
PlanningPrevious == CHOOSE src \in PlanningSources : src.has_ppr
PlanningRun ==
    [(CHOOSE src \in PlanningSources : ~src.has_ppr)
        EXCEPT !.has_ppr = TRUE, !.price = [c \in Cells |-> Some(150 * c)]]

\* what the _prep_vector of the run makes of a source: where simplification
\* may go either way, the polygons kept
Prepared(source) ==
    CHOOSE p \in prep_vector(source) :
        \A c \in Cells : /\ p[c].sac_area = source[c].sac_area
                         /\ p[c].spa_area = source[c].spa_area
                         /\ p[c].nha_area = source[c].nha_area
                         /\ p[c].pnha_area = source[c].pnha_area

\* the rows the mains compute from their sources, by sort
RunScores(run, tl) ==
    [energy |-> compute_energy_scores(run.energy, tl),
     environment |-> compose_environment_scores(Prepared(run.environment), tl),
     cooling |-> compute_cooling_scores(run.cooling, tl),
     connectivity |-> compute_connectivity_scores(run.connectivity, tl),
     planning |-> compose_planning_scores(run.planning, tl)]

RunChildRows(run, tl) ==
    [environment |-> designation_rows(Prepared(run.environment), tl),
     planning |-> planning_application_rows(run.planning, tl)]

RunMetricRanges(run, tl) ==
    [energy |-> energy_metric_ranges(run.energy, tl),
     cooling |-> cooling_metric_ranges(run.cooling, tl),
     planning |-> land_price_metric_ranges(run.planning, tl)]

RunPins(run, tl) ==
    [energy |-> pin_rows(energy_pin_features(run.energy), tl),
     environment |-> pin_rows(environment_pin_features(run.environment), tl),
     cooling |-> pin_rows(cooling_pin_features(run.cooling), tl),
     connectivity |-> pin_rows(connectivity_pin_features(run.connectivity), tl),
     planning |-> pin_rows(planning_pin_features(run.planning), tl)]

ThisRun ==
    [energy |-> EnergyRun, environment |-> EnvironmentRunSource, cooling |-> CoolingRun,
     connectivity |-> ConnectivityRun, planning |-> PlanningRun]

PreviousRun ==
    [energy |-> EnergyPrevious, environment |-> EnvironmentPreviousSource,
     cooling |-> CoolingPrevious, connectivity |-> ConnectivityPrevious,
     planning |-> PlanningPrevious]

\* the store as one value: the score table, child table and pins of each
\* sort, and metric_ranges
Store ==
    [scores |-> [energy |-> energy_scores, environment |-> environment_scores,
                 cooling |-> cooling_scores, connectivity |-> connectivity_scores,
                 planning |-> planning_scores],
     child_rows |-> [environment |-> tile_designation_overlaps,
                     planning |-> tile_planning_applications],
     metric_ranges |-> metric_ranges,
     pins |-> pins]

\* the store the earlier runs left
PreviousStore(tl) ==
    [scores |-> RunScores(PreviousRun, tl),
     child_rows |-> RunChildRows(PreviousRun, tl),
     metric_ranges |-> RunMetricRanges(PreviousRun, tl).energy
                       @@ RunMetricRanges(PreviousRun, tl).cooling
                       @@ RunMetricRanges(PreviousRun, tl).planning,
     pins |-> RunPins(PreviousRun, tl)]

InitPipelines ==
    /\ tiles = 1..NTiles
    /\ tile_seq = NTiles
    /\ grid_pc = "idle"
    /\ grids = 1
    /\ energy_scores = PreviousStore(tiles).scores.energy
    /\ environment_scores = PreviousStore(tiles).scores.environment
    /\ cooling_scores = PreviousStore(tiles).scores.cooling
    /\ connectivity_scores = PreviousStore(tiles).scores.connectivity
    /\ planning_scores = PreviousStore(tiles).scores.planning
    /\ tile_designation_overlaps = PreviousStore(tiles).child_rows.environment
    /\ tile_planning_applications = PreviousStore(tiles).child_rows.planning
    /\ metric_ranges = PreviousStore(tiles).metric_ranges
    /\ pins = PreviousStore(tiles).pins
    /\ pins_overall = {}
    /\ overall_scores = EmptyTable
    /\ composite_weights = W_default
    /\ comp_pc = "idle"
    /\ weights = NULL
    /\ scores_df = EmptyTable
    /\ comp_out = NoOutput
    /\ pipe_pc \in {[p \in Pipelines |-> [at |-> 0, status |-> "running", absent |-> a[p]]] :
                       a \in AbsentFiles}
    /\ fn_in = NoCall
    /\ fn_out = NoCall

\* the main of p is about to run the transaction named step
Running(p, step) ==
    /\ pipe_pc[p].status = "running"
    /\ PipelineSteps[p][pipe_pc[p].at + 1] = step

\* the main's position after a transaction: an exception ends it, the last
\* transaction completes it
Advance(p, raised) ==
    pipe_pc' =
        [pipe_pc EXCEPT ![p] =
            IF raised THEN [pipe_pc[p] EXCEPT !.status = "failed"]
            ELSE [pipe_pc[p] EXCEPT !.at = pipe_pc[p].at + 1,
                                    !.status = IF pipe_pc[p].at + 1 = Len(PipelineSteps[p])
                                               THEN "done" ELSE "running"]]

\* an exception in the last batch of a scores upsert, or none
RaisedAt(raised) == IF raised THEN NumBatches(tiles) ELSE 0

\* main up to its first transaction: SystemExit(1) when a required file is
\* missing; otherwise the sources are read, the scores computed, and
\* upsert_<sort>_scores runs
MainScores(p) ==
    /\ Running(p, "scores")
    /\ IF missing(p, pipe_pc[p].absent) # {}
       THEN /\ pipe_pc' = [pipe_pc EXCEPT ![p].status = "exit1"]
            /\ UNCHANGED <<pins_overall, sortVars>>
       ELSE \E raised \in BOOLEAN :
              LET rows == RunScores(ThisRun, tiles)[p]
                  upsert(table, sort) ==
                      IF p = sort THEN TxnUpsert(table, rows, tiles, RaisedAt(raised))
                      ELSE table
              IN  /\ Advance(p, raised)
                  /\ energy_scores' = upsert(energy_scores, "energy")
                  /\ environment_scores' = upsert(environment_scores, "environment")
                  /\ cooling_scores' = upsert(cooling_scores, "cooling")
                  /\ connectivity_scores' = upsert(connectivity_scores, "connectivity")
                  /\ planning_scores' = upsert(planning_scores, "planning")
    /\ UNCHANGED <<pins_overall, fnVars, sideVars, gridVars, childVars, overall_scores, composite_weights,
                   compVars>>

\* upsert_designation_overlaps, upsert_planning_applications
UpsertChildRows(p) ==
    /\ Running(p, "child_rows")
    /\ \E raised \in BOOLEAN :
          LET upsert(table, sort) ==
                  IF p = sort
                  THEN upsert_child_rows(table, RunChildRows(ThisRun, tiles)[p], tiles,
                                         RaisedAt(raised))
                  ELSE table
          IN  /\ Advance(p, raised)
              /\ tile_designation_overlaps' = upsert(tile_designation_overlaps, "environment")
              /\ tile_planning_applications' = upsert(tile_planning_applications, "planning")
    /\ UNCHANGED <<pins_overall, fnVars, sideVars, gridVars, sortVars, overall_scores, composite_weights,
                   compVars>>

\* write_metric_ranges, write_land_price_metric_ranges: the rows of the run
\* in one transaction
WriteMetricRanges(p) ==
    /\ Running(p, "metric_ranges")
    /\ \E raised \in BOOLEAN :
          /\ Advance(p, raised)
          /\ metric_ranges' =
                 IF raised THEN metric_ranges
                 ELSE write_metric_ranges(metric_ranges, RunMetricRanges(ThisRun, tiles)[p])
    /\ UNCHANGED <<pins_overall, fnVars, pins, gridVars, sortVars, childVars, overall_scores,
                   composite_weights, compVars>>

\* Variant: the DELETE empties the pins tables of all sorts.
UpsertPinsDeleteAll(p) ==
    /\ Running(p, "pins")
    /\ \E raised \in BOOLEAN :
          /\ Advance(p, raised)
          /\ pins' = [q \in Pipelines |->
                         IF q = p THEN upsert_pins(pins[p], RunPins(ThisRun, tiles)[p], raised)
                         ELSE {}]
    /\ UNCHANGED <<pins_overall, fnVars, metric_ranges, gridVars, sortVars, childVars, overall_scores,
                   composite_weights, compVars>>

\* upsert_pins_<sort>
UpsertPins(p) ==
    /\ Running(p, "pins")
    /\ \E raised \in BOOLEAN :
          /\ Advance(p, raised)
          /\ pins' = [pins EXCEPT ![p] =
                         upsert_pins(pins[p], RunPins(ThisRun, tiles)[p], raised)]
    /\ UNCHANGED <<pins_overall, fnVars, metric_ranges, gridVars, sortVars, childVars, overall_scores,
                   composite_weights, compVars>>

NextPipelines ==
    \E p \in Pipelines :
        \/ MainScores(p)
        \/ UpsertChildRows(p)
        \/ WriteMetricRanges(p)
        \/ UpsertPins(p)

SpecPipelines == InitPipelines /\ [][NextPipelines]_vars

\* ------------------------------------------------------------ unit harness
\* Each scoring function applied on its own to an input drawn from a grid of
\* values that covers every branch of the function.

dbVars == <<gridVars, sortVars, childVars, overall_scores, composite_weights, compVars,
           sideVars, pins_overall, pipe_pc>>

FnDesignations ==
    [sac_area : {0, 1, TILE_SIZE_M2}, spa_area : {0, 1}, nha_area : {0, TILE_SIZE_M2},
     pnha_area : {0, 100}, current_flood : BOOLEAN, future_flood : BOOLEAN,
     landslide : {"none", "low", "medium", "high"}]

FnScoreLevels == {0, 5000, 10000}
FnWeights == SeedWeights \cup {Weights(0, 0, 0, 0, 10000), Weights(10000, 0, 0, 0, 0)}
\* a raw value with the population minimum and maximum it is normalised over
FnSamples == {<<5, 5, 9>>, <<7, 5, 9>>, <<9, 5, 9>>, <<7, 7, 7>>}
FnSubScores == {0, 50, 100}
\* columns over the cells of a grid, with and without missing values
FnRasterColumns == [Cells -> {None, Some(6), Some(10)}]
FnScoreColumns == [Cells -> {None, Some(40)}]

\* pins_overall tables: data centres at either end of the lattice, and a pin
\* of another type
FnPinTables ==
    SUBSET (seed_pins_overall
            \cup {[name |-> "IDA Business Park", type |-> "ida_site", cell |-> 1]})

FnInputs ==
    {[fn |-> "compose_environment_scores", layout |-> d] : d \in FnDesignations}
    \cup
    {[fn |-> "compute_overall_scores", weights |-> w,
      row |-> [energy_score |-> e, environment_score |-> env, cooling_score |-> c,
               connectivity_score |-> cn, planning_score |-> p,
               has_hard_exclusion |-> hard,
               exclusion_reason |-> IF hard THEN "SAC overlap" ELSE NULL]] :
        e \in FnScoreLevels, env \in FnScoreLevels, c \in FnScoreLevels,
        cn \in FnScoreLevels, p \in FnScoreLevels, hard \in BOOLEAN, w \in FnWeights}
    \cup
    {[fn |-> "compose_planning_scores", zoning_tier |-> zt, land_price_score |-> lps,
      dc_nearby |-> dc, pct_residential |-> res] :
        zt \in {0, 10, 50, 100}, lps \in {None, Some(0), Some(50), Some(100)},
        dc \in {"none", "any", "granted"}, res \in {0, 5}}
    \cup
    {[fn |-> "compute_energy_scores", wind |-> w, solar |-> s, grid_proximity |-> gp,
      renewable_score |-> rn] :
        w \in FnSamples, s \in FnSamples, gp \in FnSubScores, rn \in FnSubScores}
    \cup
    {[fn |-> "compute_cooling_scores", temperature |-> t, rainfall |-> r,
      water_proximity |-> water] :
        t \in FnSamples, r \in FnSamples, water \in FnSubScores}
    \cup
    {[fn |-> "compute_connectivity_scores", broadband |-> b, ix_distance |-> ix,
      road_access |-> road] :
        b \in FnSubScores, ix \in FnSubScores, road \in FnSubScores}
    \cup
    {[fn |-> "energy_score_column",
      src |-> [wind |-> w, solar |-> s, grid_proximity |-> 0, renewable_score |-> rn]] :
        w \in FnRasterColumns, s \in FnRasterColumns, rn \in FnScoreColumns}
    \cup
    {[fn |-> "min_max_normalise", col |-> col] : col \in FnRasterColumns}
    \cup
    {[fn |-> "cooling_score_column",
      src |-> [temperature |-> t, rainfall |-> r, water_proximity |-> water]] :
        t \in FnRasterColumns, r \in FnRasterColumns, water \in FnScoreColumns}
    \cup
    {[fn |-> "connectivity_score_column",
      src |-> [broadband |-> b, ix_distance |-> ix, road_access |-> road]] :
        b \in FnScoreColumns, ix \in FnScoreColumns, road \in FnScoreColumns}
    \cup
    {[fn |-> "compute_nearest_data_centre_km", pins_overall |-> q] : q \in FnPinTables}

InitFn ==
    /\ tiles = {}
    /\ tile_seq = 0
    /\ grid_pc = "idle"
    /\ grids = 0
    /\ energy_scores = EmptyTable
    /\ environment_scores = EmptyTable
    /\ cooling_scores = EmptyTable
    /\ connectivity_scores = EmptyTable
    /\ planning_scores = EmptyTable
    /\ tile_designation_overlaps = {}
    /\ tile_planning_applications = {}
    /\ overall_scores = EmptyTable
    /\ composite_weights = W_default
    /\ comp_pc = "idle"
    /\ weights = NULL
    /\ scores_df = EmptyTable
    /\ comp_out = NoOutput
    /\ metric_ranges = EmptyTable
    /\ pins = NoPins
    /\ pins_overall = {}
    /\ pipe_pc = NoRuns
    /\ fn_in \in FnInputs
    /\ fn_out = NoCall

\* the call is made once: fn_out is NoCall before it
Called == fn_out # NoCall

FnEnvironment ==
    /\ fn_in.fn = "compose_environment_scores" /\ ~Called
    /\ fn_out' = compose_environment_scores([c \in Cells |-> fn_in.layout], {1})[1]
    /\ UNCHANGED <<dbVars, fn_in>>

FnOverall ==
    /\ fn_in.fn = "compute_overall_scores" /\ ~Called
    /\ fn_out' = compute_overall_scores([t \in {1} |-> fn_in.row], fn_in.weights)[1]
    /\ UNCHANGED <<dbVars, fn_in>>

FnPlanning ==
    /\ fn_in.fn = "compose_planning_scores" /\ ~Called
    /\ fn_out' = [score |-> planning_score(fn_in.zoning_tier, fn_in.land_price_score,
                                           planning_precedent(fn_in.dc_nearby),
                                           fn_in.pct_residential)]
    /\ UNCHANGED <<dbVars, fn_in>>

FnEnergy ==
    /\ fn_in.fn = "compute_energy_scores" /\ ~Called
    /\ fn_out' = [score |-> energy_score(
                     MinMaxNorm(fn_in.wind[1], fn_in.wind[2], fn_in.wind[3]),
                     MinMaxNorm(fn_in.solar[1], fn_in.solar[2], fn_in.solar[3]),
                     fn_in.grid_proximity, fn_in.renewable_score)]
    /\ UNCHANGED <<dbVars, fn_in>>

FnCooling ==
    /\ fn_in.fn = "compute_cooling_scores" /\ ~Called
    /\ fn_out' = [score |-> cooling_score(
                     MinMaxNorm(fn_in.temperature[1], fn_in.temperature[2],
                                fn_in.temperature[3]),
                     MinMaxNorm(fn_in.rainfall[1], fn_in.rainfall[2], fn_in.rainfall[3]),
                     fn_in.water_proximity)]
    /\ UNCHANGED <<dbVars, fn_in>>

FnConnectivity ==
    /\ fn_in.fn = "compute_connectivity_scores" /\ ~Called
    /\ fn_out' = [score |-> connectivity_score(fn_in.broadband, fn_in.ix_distance,
                                               fn_in.road_access)]
    /\ UNCHANGED <<dbVars, fn_in>>

FnNearest ==
    /\ fn_in.fn = "compute_nearest_data_centre_km" /\ ~Called
    /\ fn_out' = compute_nearest_data_centre_km(fn_in.pins_overall, Cells)
    /\ UNCHANGED <<dbVars, fn_in>>

FnEnergyColumn ==
    /\ fn_in.fn = "energy_score_column" /\ ~Called
    /\ fn_out' = energy_score_column(fn_in.src)
    /\ UNCHANGED <<dbVars, fn_in>>

\* the wind_norm / temp_norm column of a run: the raw column filled with its
\* median, then normalised
FnNormalise ==
    /\ fn_in.fn = "min_max_normalise" /\ ~Called
    /\ fn_out' = [c \in Cells |-> norm_or_50(fillna(fn_in.col, median(fn_in.col)), c)]
    /\ UNCHANGED <<dbVars, fn_in>>

FnCoolingColumn ==
    /\ fn_in.fn = "cooling_score_column" /\ ~Called
    /\ fn_out' = cooling_score_column(fn_in.src)
    /\ UNCHANGED <<dbVars, fn_in>>

FnConnectivityColumn ==
    /\ fn_in.fn = "connectivity_score_column" /\ ~Called
    /\ fn_out' = connectivity_score_column(fn_in.src)
    /\ UNCHANGED <<dbVars, fn_in>>

NextFn ==
    \/ FnNearest
    \/ FnNormalise
    \/ FnEnergyColumn
    \/ FnCoolingColumn
    \/ FnConnectivityColumn
    \/ FnEnvironment
    \/ FnOverall
    \/ FnPlanning
    \/ FnEnergy
    \/ FnCooling
    \/ FnConnectivity

SpecFn == InitFn /\ [][NextFn]_vars

\* ------------------------------------------------- PUT /api/weights, replies

\* ADMIN_KEY as the environment of the server may hold it: unset or set
AdminKeySettings == {"", ADMIN_KEY}

\* request bodies: sums of 1, 1.0001, 1.0005 and 2.5, and a body whose sum is
\* 1 with one field above 1 and one below 0
W_within == Weights(2500, 2000, 1500, 2500, 1501)
W_outside == Weights(15000, -5000, 0, 0, 0)
RequestBodies ==
    {W_default, Weights(3000, 2000, 1000, 2500, 1500), Weights(0, 0, 0, 0, 10000),
     Weights(2000, 2000, 2000, 2000, 2000), W_within, W_off, W_over, W_outside}

NoRequest == [x_admin_key |-> None, body |-> NoRow]

InitWeights ==
    /\ tiles = {}
    /\ tile_seq = 0
    /\ grid_pc = "idle"
    /\ grids = 0
    /\ energy_scores = EmptyTable
    /\ environment_scores = EmptyTable
    /\ cooling_scores = EmptyTable
    /\ connectivity_scores = EmptyTable
    /\ planning_scores = EmptyTable
    /\ tile_designation_overlaps = {}
    /\ tile_planning_applications = {}
    /\ overall_scores = EmptyTable
    /\ composite_weights = W_default
    /\ comp_pc = "idle"
    /\ weights = NULL
    /\ scores_df = EmptyTable
    /\ comp_out = NoOutput
    /\ metric_ranges = EmptyTable
    /\ pins = NoPins
    /\ pins_overall = {}
    /\ pipe_pc = NoRuns
    /\ \E k \in AdminKeySettings :
           fn_in = [fn |-> "update_weights", ADMIN_KEY |-> k, request |-> NoRequest]
    /\ fn_out = NoCall

\* one PUT /api/weights, the request and the status of its response kept
PutWeights ==
    \E x_admin_key \in AdminKeyHeaders, body \in RequestBodies :
        LET r == update_weights(fn_in.ADMIN_KEY, x_admin_key, body, composite_weights)
        IN  /\ fn_in' = [fn_in EXCEPT !.request = [x_admin_key |-> x_admin_key, body |-> body]]
            /\ fn_out' = [fn |-> "update_weights", status |-> r.status]
            /\ composite_weights' = r.row
            /\ UNCHANGED <<pins_overall, pipe_pc, sideVars, gridVars, sortVars, childVars, overall_scores, compVars>>

NextWeights == PutWeights

SpecWeights == InitWeights /\ [][NextWeights]_vars

\* ------------------------------------------------------------- properties

\* a step of compute_composite.main
CompositeLoadStep == comp_pc = "idle" /\ comp_out' # comp_out
CompositeUpsertStep == comp_pc = "loaded" /\ comp_pc' = "idle"

\* t has no row in at least one of the five category score tables
Absent(t) ==
    \/ t \notin DOMAIN energy_scores
    \/ t \notin DOMAIN environment_scores
    \/ t \notin DOMAIN cooling_scores
    \/ t \notin DOMAIN connectivity_scores
    \/ t \notin DOMAIN planning_scores

\* the overall_scores rows a step wrote: inserted or changed
Written(t) ==
    /\ t \in DOMAIN overall_scores'
    /\ t \in DOMAIN overall_scores => overall_scores'[t] # overall_scores[t]

OffSum(w) == WeightSum(w) - 10000 > 1 \/ 10000 - WeightSum(w) > 1

\* C1: whatever the weights, every overall_scores row with
\* has_hard_exclusion = true has score exactly 0.
C1_HardExclusionScoreZero ==
    \A t \in DOMAIN overall_scores :
        overall_scores[t].has_hard_exclusion => overall_scores[t].score = 0

\* an excluded tile whose other category scores are positive, scored 0 beside
\* a tile that is not excluded and scored above 0
C1_Witness ==
    \E t \in DOMAIN overall_scores, u \in DOMAIN overall_scores :
        /\ overall_scores[t].has_hard_exclusion
        /\ overall_scores[t].energy_score > 0
        /\ overall_scores[t].score = 0
        /\ ~overall_scores[u].has_hard_exclusion
        /\ overall_scores[u].score > 0

C3_AbsentTilesNotScored ==
    [][/\ CompositeLoadStep =>
            /\ comp_out'.missing = Cardinality({t \in tiles : Absent(t)})
            /\ \A t \in tiles : Absent(t) => t \notin DOMAIN scores_df'
            /\ overall_scores' = overall_scores
       /\ CompositeUpsertStep =>
            \A t \in TileIds : Written(t) => t \in DOMAIN scores_df /\ ~Absent(t)
      ]_vars

\* a run that found tiles absent from some category table while another
\* category table was populated: the count is reported, no row exists
C3_Witness ==
    /\ comp_out.status = "exit1"
    /\ comp_out.missing = NTiles
    /\ \E t \in tiles : t \in DOMAIN energy_scores /\ Absent(t)
    /\ overall_scores = EmptyTable

\* C4: a composite run writes an overall_scores row for a tile only when all
\* five category score tables hold a committed row for that tile.
C4_WritesOnlyAfterAllFiveCommitted ==
    [][CompositeUpsertStep => \A t \in TileIds : Written(t) => ~Absent(t)]_vars

\* a completed run: every tile has a row in each of the five tables and in
\* overall_scores
C4_Witness ==
    /\ comp_out.status = "ok"
    /\ tiles # {}
    /\ \A t \in tiles : ~Absent(t) /\ t \in DOMAIN overall_scores

\* the rows the aggregator was upserting in a step
OverallDf ==
    merge_nearest(compute_overall_scores(scores_df, weights),
                  compute_nearest_data_centre_km(pins_overall, tiles))

\* C5 as stated: when a later batch fails, the rows of the batches executed
\* before it remain committed.
C5_EarlierBatchesRemain ==
    [][(CompositeUpsertStep /\ comp_out'.status = "error" /\ comp_out'.failed_batch > 1) =>
            \A t \in DoneIds(DOMAIN scores_df, comp_out'.failed_batch - 1) :
                /\ t \in DOMAIN overall_scores'
                /\ overall_scores'[t] = OverallDf[t]
      ]_vars

\* C5 amended: an upsert is one transaction over all its batches: a run that
\* fails in any batch leaves the table as it was, and a table changes only by
\* taking the complete row set of a run (or by the grid's TRUNCATE).
C5_UpsertAllOrNothing ==
    [][/\ CompositeUpsertStep =>
            overall_scores' = IF comp_out'.status = "error" THEN overall_scores
                              ELSE Upsert(overall_scores, OverallDf)
       /\ energy_scores' # energy_scores =>
            \/ energy_scores' = EmptyTable
            \/ \E src \in EnergySources :
                   energy_scores' = Upsert(energy_scores, compute_energy_scores(src, tiles))
       /\ environment_scores' # environment_scores =>
            \/ environment_scores' = EmptyTable
            \/ \E source \in EnvLayouts : \E p \in prep_vector(source) :
                   environment_scores' =
                       Upsert(environment_scores, compose_environment_scores(p, tiles))
      ]_vars

\* a run that failed after its first batch had been executed, the table holding
\* none of that batch's rows
C5_Witness ==
    /\ comp_out.status = "error"
    /\ comp_out.failed_batch > 1
    /\ tiles # {}
    /\ \A t \in tiles : ~Absent(t)
    /\ overall_scores = EmptyTable

\* the child rows of tile t
RowsOf(table, t) == {r \in table : r.tile_id = t}

\* the step is an environment run over the prepared layers p that committed
\* its scores and its overlap rows
EnvironmentRunCommitted(p) ==
    /\ tiles # {}
    /\ environment_scores' = Upsert(environment_scores, compose_environment_scores(p, tiles))
    /\ tile_designation_overlaps' =
           upsert_child_rows(tile_designation_overlaps, designation_rows(p, tiles), tiles, 0)
    /\ UNCHANGED <<gridVars, overall_scores, compVars, composite_weights, planning_scores>>

\* the step is a planning run over the source data src that committed its
\* scores and its application rows
PlanningRunCommitted(src) ==
    /\ tiles # {}
    /\ planning_scores' = Upsert(planning_scores, compose_planning_scores(src, tiles))
    /\ tile_planning_applications' =
           upsert_child_rows(tile_planning_applications,
                             planning_application_rows(src, tiles), tiles, 0)
    /\ UNCHANGED <<gridVars, overall_scores, compVars, composite_weights, environment_scores>>

\* C6: after a category run, the child records of every tile are exactly the
\* records that run computed for the tile; none of an earlier run survives.
C6_ChildRowsAreLatestRun ==
    [][/\ \A source \in EnvLayouts : \A p \in prep_vector(source) :
              EnvironmentRunCommitted(p) =>
                  \A t \in tiles :
                      RowsOf(tile_designation_overlaps', t) = designation_rows(p, {t})
       /\ \A src \in PlanningSources :
              PlanningRunCommitted(src) =>
                  \A t \in tiles :
                      RowsOf(tile_planning_applications', t)
                          = planning_application_rows(src, {t})
      ]_vars

\* C7: when a composite run completes, overall_scores is exactly the row set
\* computed from the scores, flags and weights the run read: rows for the
\* tiles present in all five category tables and no other row.
C7_OverallIsExactlyTheRun ==
    [][(CompositeUpsertStep /\ comp_out'.status = "ok") =>
            /\ overall_scores' = OverallDf
            /\ DOMAIN overall_scores' = {t \in tiles : ~Absent(t)}
      ]_vars

\* a run completed on the last grid, with an excluded tile: overall_scores
\* holds rows for that grid's tiles only
C7_Witness ==
    /\ comp_out.status = "ok"
    /\ grids = MaxGrids
    /\ tiles # {}
    /\ DOMAIN overall_scores = tiles
    /\ \E t \in tiles : overall_scores[t].has_hard_exclusion

\* C8: every score in the five category tables and in overall_scores lies in
\* [0, 100].
C8_ScoresInRange ==
    /\ \A t \in DOMAIN energy_scores : energy_scores[t].score \in 0..10000
    /\ \A t \in DOMAIN environment_scores : environment_scores[t].score \in 0..10000
    /\ \A t \in DOMAIN cooling_scores : cooling_scores[t].score \in 0..10000
    /\ \A t \in DOMAIN connectivity_scores : connectivity_scores[t].score \in 0..10000
    /\ \A t \in DOMAIN planning_scores : planning_scores[t].score \in 0..10000
    /\ \A t \in DOMAIN overall_scores : overall_scores[t].score \in 0..10000

\* a planning row whose unclipped sum is 110 and one whose sum is -10, and an
\* overall row whose weighted sum is above 100
C8_Witness ==
    /\ \E t \in DOMAIN planning_scores :
           /\ planning_scores[t].zoning_tier = 100
           /\ planning_scores[t].planning_precedent = 60
           /\ planning_scores[t].score = 10000
    /\ \E t \in DOMAIN planning_scores :
           /\ planning_scores[t].zoning_tier = 10
           /\ planning_scores[t].pct_residential > 0
           /\ planning_scores[t].score = 0
    /\ \E t \in DOMAIN overall_scores :
           /\ overall_scores[t].energy_score + overall_scores[t].environment_score
                  + overall_scores[t].cooling_score + overall_scores[t].connectivity_score
                  + overall_scores[t].planning_score > 20000
           /\ ~overall_scores[t].has_hard_exclusion
           /\ overall_scores[t].score = 10000
           /\ composite_weights = W_over

\* C9: compose_environment_scores gives score 0 to every tile it flags
\* has_hard_exclusion, whatever penalties and caps also apply.
C9_HardExclusionEnvironmentZero ==
    (fn_in.fn = "compose_environment_scores" /\ Called) =>
        (fn_out.has_hard_exclusion => fn_out.score = 0)

\* a tile in the current flood zone only, which also has the landslide
\* penalty and both caps, scored 0
C9_Witness ==
    /\ fn_in.fn = "compose_environment_scores"
    /\ Called
    /\ fn_in.layout.current_flood
    /\ fn_in.layout.sac_area = 0
    /\ fn_in.layout.spa_area = 0
    /\ fn_in.layout.future_flood
    /\ fn_in.layout.nha_area > 0
    /\ fn_in.layout.landslide = "medium"
    /\ fn_out.has_hard_exclusion
    /\ fn_out.score = 0

\* the tile's cell intersects an SAC or SPA polygon of the source layers at a
\* nonzero area, or the current flood extent
TopTier(d) == d.sac_area > 0 \/ d.spa_area > 0 \/ d.current_flood

\* the step is an environment run over the source layers that committed its scores
EnvironmentScoresCommitted(source) ==
    /\ tiles # {}
    /\ environment_scores' # environment_scores
    /\ \E p \in prep_vector(source) :
           environment_scores' = Upsert(environment_scores,
                                        compose_environment_scores(p, tiles))

\* C10: a tile gets has_hard_exclusion = true exactly when it intersects an SAC
\* or SPA polygon at any nonzero area or the current flood extent; the reason
\* names a type it intersects; and its composite score is 0.
C10_TopTierIntersectionExcludes ==
    [][/\ \A source \in EnvLayouts :
              EnvironmentScoresCommitted(source) =>
                  \A t \in tiles :
                      LET d == source[CellOf(t)]
                          row == environment_scores'[t]
                      IN  /\ row.has_hard_exclusion = TopTier(d)
                          /\ row.exclusion_reason = "SAC overlap" => d.sac_area > 0
                          /\ row.exclusion_reason = "SPA overlap" => d.spa_area > 0
                          /\ row.exclusion_reason = "Current flood zone" => d.current_flood
                          /\ TopTier(d) => row.exclusion_reason \in
                                 {"SAC overlap", "SPA overlap", "Current flood zone"}
       /\ CompositeUpsertStep =>
              \A t \in TileIds : Written(t) =>
                  /\ overall_scores'[t].has_hard_exclusion = scores_df[t].has_hard_exclusion
                  /\ overall_scores'[t].exclusion_reason = scores_df[t].exclusion_reason
                  /\ overall_scores'[t].has_hard_exclusion => overall_scores'[t].score = 0
      ]_vars

\* C11: exclusion_reason is null exactly when has_hard_exclusion is false;
\* otherwise it names the first rule that matches in the order SAC, SPA,
\* current flood zone; a tile of landslide class medium that overlaps an SAC
\* has score 0 and the SAC reason.
C11_FirstMatchingReason ==
    (fn_in.fn = "compose_environment_scores" /\ Called) =>
        /\ (fn_out.exclusion_reason = NULL) = ~fn_out.has_hard_exclusion
        /\ fn_out.has_hard_exclusion =>
               fn_out.exclusion_reason =
                   IF fn_out.intersects_sac THEN "SAC overlap"
                   ELSE IF fn_out.intersects_spa THEN "SPA overlap"
                   ELSE "Current flood zone"
        /\ fn_out.intersects_sac = (fn_in.layout.sac_area > 0)
        /\ fn_out.intersects_spa = (fn_in.layout.spa_area > 0)
        /\ fn_out.intersects_current_flood = fn_in.layout.current_flood
        /\ (fn_in.layout.landslide = "medium" /\ fn_in.layout.sac_area > 0) =>
               fn_out.score = 0 /\ fn_out.exclusion_reason = "SAC overlap"

\* a tile of landslide class medium that overlaps an SAC and an SPA and lies
\* in the current flood zone, given score 0 and the SAC reason
C11_Witness ==
    /\ fn_in.fn = "compose_environment_scores"
    /\ Called
    /\ fn_in.layout.landslide = "medium"
    /\ fn_in.layout.sac_area > 0
    /\ fn_in.layout.spa_area > 0
    /\ fn_in.layout.current_flood
    /\ fn_out.score = 0
    /\ fn_out.exclusion_reason = "SAC overlap"

\* the rows table holds are exactly the rows of a run: the state a first run
\* leaves on a grid that no other run of the category has written
HoldsRun(table, rows) == DOMAIN table = DOMAIN rows /\ \A t \in DOMAIN rows : table[t] = rows[t]

\* the step is a run that committed rows into a table that changes from
\* before to after
CommitsRun(before, after, rows) ==
    /\ UNCHANGED tiles
    /\ tiles # {}
    /\ after = TxnUpsert(before, rows, tiles, 0)

ReferencedTiles ==
    DOMAIN energy_scores \cup DOMAIN environment_scores \cup DOMAIN cooling_scores
    \cup DOMAIN connectivity_scores \cup DOMAIN planning_scores \cup DOMAIN overall_scores
    \cup {r.tile_id : r \in tile_designation_overlaps}
    \cup {r.tile_id : r \in tile_planning_applications}

\* the step is load_tiles_to_db committing its INSERT of a new grid
GridPersisted == grid_pc = "truncated" /\ tiles' # {}

\* C13: when the grid generator has persisted a new grid, tiles holds exactly
\* the newly generated tiles, whose ids no earlier grid had, and from then on
\* no category, child or composite table holds a row that refers to a tile
\* outside the grid in place.
C13_GridFullReplace ==
    [][/\ GridPersisted =>
              /\ tiles' = (tile_seq + 1)..(tile_seq + NTiles)
              /\ ReferencedTiles' = {}
       /\ ReferencedTiles' \subseteq tiles'
      ]_vars

\* a second grid is in place, scored by all five categories and the composite,
\* with child rows, and the ids of the first grid are nowhere
C13_Witness ==
    /\ grids = 2
    /\ tiles = (NTiles + 1)..(2 * NTiles)
    /\ DOMAIN overall_scores = tiles
    /\ tile_designation_overlaps # {}
    /\ tile_planning_applications # {}
    /\ ReferencedTiles = tiles

\* C14: every step of load_tiles_to_db leaves in tiles either the complete
\* previous grid or the complete new grid.
C14_GridAllOrNothing ==
    [][tiles' = tiles \/ tiles' = (tile_seq + 1)..(tile_seq + NTiles)]_vars

\* the step is seed_synthetic.main writing overall_scores
SeedStep ==
    /\ tiles # {}
    /\ UNCHANGED <<tiles, comp_pc>>
    /\ overall_scores' # overall_scores

\* every overall_scores row the step wrote has the score that the weights w
\* give to the category scores in the row
ScoredWith(w) ==
    \A t \in TileIds :
        Written(t) => overall_scores'[t].score = overall_score(overall_scores'[t], w)

\* C15: every run that computes composite scores reads the composite_weights
\* row and computes with the weights stored at that time, never with a
\* compiled-in default.
C15_StoredWeightsAtRunTime ==
    [][/\ (CompositeLoadStep /\ comp_pc' = "loaded") =>
              composite_weights # NoRow /\ weights' = composite_weights
       /\ CompositeUpsertStep => ScoredWith(weights)
       /\ SeedStep => composite_weights # NoRow /\ ScoredWith(composite_weights)
      ]_vars

\* C16: a composite run fetches the weights once: what it loaded stays with it
\* while it runs, whatever PUT /api/weights stores meanwhile, and every row it
\* writes is computed from those five weights.
C16_WeightsFetchedOncePerRun ==
    [][/\ (comp_pc = "loaded" /\ comp_pc' = "loaded") => weights' = weights
       /\ CompositeUpsertStep =>
              \A t \in DOMAIN scores_df :
                  Written(t) => overall_scores'[t].score = overall_score(scores_df[t], weights)
      ]_vars

\* a run in progress that loaded weights summing to 2.5, after which a PUT
\* stored the default weights: the two give some tile different scores
C16_Witness ==
    /\ comp_pc = "loaded"
    /\ weights = W_over
    /\ composite_weights = W_default
    /\ \E t \in DOMAIN scores_df :
           overall_score(scores_df[t], weights) # overall_score(scores_df[t], composite_weights)

\* a whole main with every transaction committed, applied to a store
RunMain(store, p, tl) ==
    [scores |-> [store.scores EXCEPT ![p] = TxnUpsert(@, RunScores(ThisRun, tl)[p], tl, 0)],
     child_rows |->
         IF p \in DOMAIN store.child_rows
         THEN [store.child_rows EXCEPT
                  ![p] = upsert_child_rows(@, RunChildRows(ThisRun, tl)[p], tl, 0)]
         ELSE store.child_rows,
     metric_ranges |->
         IF p \in DOMAIN RunMetricRanges(ThisRun, tl)
         THEN write_metric_ranges(store.metric_ranges, RunMetricRanges(ThisRun, tl)[p])
         ELSE store.metric_ranges,
     pins |-> [store.pins EXCEPT ![p] = upsert_pins(@, RunPins(ThisRun, tl)[p], FALSE)]]

\* the mains run one after another in the given order
RECURSIVE OneAfterAnother(_, _, _)
OneAfterAnother(store, order, tl) ==
    IF order = << >> THEN store
    ELSE OneAfterAnother(RunMain(store, Head(order), tl), Tail(order), tl)

\* every order of the five mains
Orders ==
    {o \in [1..Cardinality(Pipelines) -> Pipelines] :
        \A i, j \in DOMAIN o : i # j => o[i] # o[j]}

\* the table a transaction of p writes, and the rows of it: a table of p's
\* own as a whole, the rows of the run in the shared metric_ranges
TableOf(p, step) ==
    IF step = "metric_ranges" THEN <<"metric_ranges", "shared">> ELSE <<step, p>>

RowsOfStep(p, step) ==
    IF step = "metric_ranges"
    THEN {<<TableOf(p, step), k>> : k \in DOMAIN RunMetricRanges(ThisRun, tiles)[p]}
    ELSE {<<TableOf(p, step), <<"all", "rows">> >>}

\* what the transactions a main has committed so far have written
RowsWritten(p) ==
    UNION {RowsOfStep(p, PipelineSteps[p][k]) : k \in 1..pipe_pc[p].at}

TablesWritten(p) == {w[1] : w \in RowsWritten(p)}

AllDone == \A p \in Pipelines : pipe_pc[p].status = "done"

\* the five mains, interleaved in some way and all completed, have left the
\* store that they leave when run one after another, in whichever order
ConcurrentAsSequential ==
    AllDone => \A o \in Orders : Store = OneAfterAnother(PreviousStore(tiles), o, tiles)

\* C17 as stated: the five category pipelines write pairwise disjoint tables,
\* and so any interleaving of them leaves the store of a sequential run.
C17_DisjointTablesSoSequential ==
    /\ \A p, q \in Pipelines : p # q => TablesWritten(p) \cap TablesWritten(q) = {}
    /\ ConcurrentAsSequential

\* C17, amended: the five category pipelines write pairwise disjoint rows
\* (each its own tables, and in the shared metric_ranges table only rows of
\* its own sort), and so any interleaving of them leaves the store that
\* running them one after another in any order leaves.
C17_DisjointRowsSoSequential ==
    /\ \A p, q \in Pipelines : p # q => RowsWritten(p) \cap RowsWritten(q) = {}
    /\ ConcurrentAsSequential

\* all five mains completed, three of them having written metric_ranges over
\* the rows of the earlier runs
C17_Witness ==
    /\ AllDone
    /\ metric_ranges # PreviousStore(tiles).metric_ranges
    /\ \E p, q \in Pipelines : p # q /\ TablesWritten(p) \cap TablesWritten(q) # {}

\* C18: a step of a category main, whether its transaction commits or raises
\* and ends the run, leaves the score tables, child tables and pins of the
\* other four categories as they were.
C18_OtherCategoriesUntouched ==
    [][\A p \in Pipelines :
          pipe_pc'[p] # pipe_pc[p]
              => \A q \in Pipelines \ {p} :
                    /\ Store'.scores[q] = Store.scores[q]
                    /\ Store'.pins[q] = Store.pins[q]
                    /\ q \in DOMAIN Store.child_rows
                          => Store'.child_rows[q] = Store.child_rows[q]
      ]_vars

\* a main has failed in its pins transaction, after the DELETE was committed,
\* while the other four categories hold score rows and pins
C18_Witness ==
    \E p \in Pipelines :
        /\ pipe_pc[p].status = "failed"
        /\ PipelineSteps[p][pipe_pc[p].at + 1] = "pins"
        /\ pins[p] = {}
        /\ \A q \in Pipelines \ {p} : pins[q] # {} /\ DOMAIN Store.scores[q] = tiles

\* C19: a category main that starts while one of its required files is
\* absent ends with exit status 1 and the whole store as it was.
C19_MissingFileExitsBeforeAnyWrite ==
    [][\A p \in Pipelines :
          (pipe_pc[p].absent # {} /\ pipe_pc'[p] # pipe_pc[p])
              => pipe_pc'[p].status = "exit1" /\ Store' = Store
      ]_vars

\* a main has exited on a missing file while another has completed, and the
\* tables of the first are those the earlier runs left
C19_Witness ==
    \E p \in Pipelines :
        /\ pipe_pc[p].status = "exit1"
        /\ pipe_pc[p].at = 0
        /\ \E q \in Pipelines : pipe_pc[q].status = "done"
        /\ Store.scores[p] = PreviousStore(tiles).scores[p]
        /\ Store.pins[p] = PreviousStore(tiles).pins[p]

\* the calls that score a whole column, and those that score one tile
ColumnCalls == {"energy_score_column", "cooling_score_column", "connectivity_score_column"}
\* the calls that return no score
PartCalls == {"min_max_normalise", "compute_nearest_data_centre_km"}

WeightedSum(r, w) ==
    r.energy_score * w.energy + r.environment_score * w.environment
    + r.cooling_score * w.cooling + r.connectivity_score * w.connectivity
    + r.planning_score * w.planning

\* the weights that put 1.0 on one category and 0 on the others
UnitOn(w, f) == w[f] = 10000 /\ \A g \in DOMAIN w \ {f} : w[g] = 0

\* C22: for a tile without hard exclusion the composite score is the sum of
\* category score times weight, clamped to [0, 100], to the two decimals the
\* table stores; with weight 1.0 on one category and 0 on the others it is
\* that category's score.
C22_CompositeIsWeightedSum ==
    (fn_in.fn = "compute_overall_scores" /\ Called /\ ~fn_in.row.has_hard_exclusion) =>
        LET clamped == Clip(WeightedSum(fn_in.row, fn_in.weights), 0, 10000 * 10000)
        IN  /\ 10000 * fn_out.score - clamped \in -5000..5000
            /\ UnitOn(fn_in.weights, "planning") => fn_out.score = fn_in.row.planning_score
            /\ UnitOn(fn_in.weights, "energy") => fn_out.score = fn_in.row.energy_score

\* weight 1.0 on energy, an energy score of 100 and four other scores of 0:
\* the composite is 100
C22_Witness ==
    /\ fn_in.fn = "compute_overall_scores"
    /\ Called
    /\ ~fn_in.row.has_hard_exclusion
    /\ UnitOn(fn_in.weights, "energy")
    /\ fn_in.row.energy_score = 10000
    /\ fn_in.row.planning_score = 0
    /\ fn_out.score = 10000

\* C23: min-max normalisation over the tiles of a run gives 0 to the tile
\* with the observed minimum, 100 to the tile with the observed maximum, and
\* 50 to every tile when the population has no range.
C23_MinMaxEndpoints ==
    (fn_in.fn = "min_max_normalise" /\ Called) =>
        LET observed == UNION {fn_in.col[c] : c \in Cells}
            ranged == observed # {} /\ SetMax(observed) > SetMin(observed)
        IN  \A c \in Cells :
                /\ fn_out[c] # None
                /\ (ranged /\ fn_in.col[c] = Some(SetMin(observed)))
                       => Get(fn_out[c])[1] = 0
                /\ (ranged /\ fn_in.col[c] = Some(SetMax(observed)))
                       => Get(fn_out[c])[1] = 100 * Get(fn_out[c])[2]
                /\ ~ranged => Get(fn_out[c])[1] = 50 * Get(fn_out[c])[2]

\* a population with a range, normalised to 0 and 100
C23_Witness ==
    /\ fn_in.fn = "min_max_normalise"
    /\ Called
    /\ \E c, d \in Cells :
          /\ fn_in.col[c] = Some(6) /\ fn_in.col[d] = Some(10)
          /\ Get(fn_out[c])[1] = 0
          /\ Get(fn_out[d])[1] = 100 * Get(fn_out[d])[2]

\* a population of equal values, every tile normalised to 50
C23_WitnessZeroRange ==
    /\ fn_in.fn = "min_max_normalise"
    /\ Called
    /\ \A c \in Cells : fn_in.col[c] = Some(6) /\ fn_out[c] = Some(<<50, 1>>)

C29_BonusWheneverApplicationNearby ==
    (fn_in.fn = "compose_planning_scores" /\ Called /\ fn_in.dc_nearby # "none") =>
        LET base == IF fn_in.land_price_score # None
                    THEN 60 * fn_in.zoning_tier + 40 * Get(fn_in.land_price_score)
                    ELSE 100 * fn_in.zoning_tier
            penalty == IF fn_in.pct_residential > 0 THEN 2000 ELSE 0
        IN  fn_out.score = Clip(base + 1000 - penalty, 0, 10000)

\* the score the layout of the call gets with another landslide class
ScoreWithLandslide(class) ==
    compose_environment_scores(
        [c \in Cells |-> [fn_in.layout EXCEPT !.landslide = class]], {1})[1].score

\* C30: with all other flags equal, a tile classed high does not score above
\* one classed medium, which does not score above one classed low or none.
C30_LandslideMonotone ==
    (fn_in.fn = "compose_environment_scores" /\ Called) =>
        /\ fn_in.layout.landslide = "high" => fn_out.score <= ScoreWithLandslide("medium")
        /\ fn_in.layout.landslide = "medium" =>
               /\ fn_out.score <= ScoreWithLandslide("low")
               /\ fn_out.score <= ScoreWithLandslide("none")

\* the values a stored metric column holds, nulls left out
StoredMetric(sort, metric) ==
    IF sort = "energy" THEN {energy_scores[t][metric] : t \in DOMAIN energy_scores}
    ELSE IF sort = "cooling" THEN {cooling_scores[t][metric] : t \in DOMAIN cooling_scores}
    ELSE UNION {planning_scores[t][metric] : t \in DOMAIN planning_scores}

\* the category table of a sort holds rows
HasRows(sort) ==
    IF sort = "energy" THEN DOMAIN energy_scores # {}
    ELSE IF sort = "cooling" THEN DOMAIN cooling_scores # {}
    ELSE DOMAIN planning_scores # {}

\* the raw metrics that have a metric_ranges row and a stored column
RangedMetrics ==
    {<<"energy", "wind_speed_100m">>, <<"energy", "solar_ghi">>,
     <<"cooling", "temperature">>, <<"cooling", "rainfall">>,
     <<"planning", "avg_price_per_sqm_eur">>}

\* C21: whenever the store is at rest, each metric_ranges row holds the
\* minimum and maximum of the metric column stored in its category table,
\* because every run that rewrites the column rewrites the row.
C21_RangesEqualStoredMinMax ==
    (grid_pc = "idle" /\ comp_pc = "idle") =>
        \A key \in RangedMetrics \cap DOMAIN metric_ranges :
            HasRows(key[1]) =>
                /\ StoredMetric(key[1], key[2]) # {}
                /\ metric_ranges[key] = Range(StoredMetric(key[1], key[2]))

\* the pins_overall rows of type data_centre
DataCentres == {q \in pins_overall : q.type = "data_centre"}

\* C24: with no data-centre pin in pins_overall a composite run is not stopped
\* by the distance step: unless a batch of the upsert raises, it ends normally
\* and every overall_scores row it writes has a null nearest_data_centre_km.
C24_NoDataCentresNullDistance ==
    [][(CompositeUpsertStep /\ DataCentres = {}) =>
          \/ /\ comp_out'.status = "ok"
             /\ \A t \in DOMAIN scores_df :
                   /\ t \in DOMAIN overall_scores'
                   /\ overall_scores'[t].nearest_data_centre_km = None
          \/ /\ comp_out'.status = "error"
             /\ comp_out'.failed_batch >= 1
             /\ overall_scores' = overall_scores]_vars

\* a run that ended normally with no data-centre pin: every tile has its
\* row, each with a null distance
C24_Witness ==
    /\ DataCentres = {}
    /\ comp_out.status = "ok"
    /\ tiles # {}
    /\ \A t \in tiles :
          t \in DOMAIN overall_scores /\ overall_scores[t].nearest_data_centre_km = None

\* C25: with ADMIN_KEY configured, a PUT /api/weights without the X-Admin-Key
\* header or with another key is answered 401 and the stored row stays as it
\* was (with ADMIN_KEY unset the handler answers 500 before it compares keys).
C25_WrongKeyIs401AndNoWrite ==
    [][(fn_in.ADMIN_KEY # "" /\ fn_in'.request.x_admin_key # Some(fn_in.ADMIN_KEY))
           => (fn_out'.status = 401 /\ composite_weights' = composite_weights)]_vars

\* a request with a wrong key and a valid body other than the stored row,
\* answered 401
C25_Witness ==
    /\ fn_in.fn = "update_weights"
    /\ fn_in.ADMIN_KEY = "testkey"
    /\ fn_in.request.x_admin_key = Some("wrongkey")
    /\ fn_in.request.body = Weights(0, 0, 0, 0, 10000)
    /\ fn_out = [fn |-> "update_weights", status |-> 401]
    /\ composite_weights = W_default

\* a body whose five fields are in [0, 1] and sum to 1 within 1e-4
InRangeAndSumsToOne(w) ==
    /\ \A f \in {"energy", "environment", "cooling", "connectivity", "planning"} :
           w[f] \in 0..10000
    /\ w.energy + w.environment + w.cooling + w.connectivity + w.planning \in 9999..10001

\* C26: from a valid seeded row, after any sequence of PUT /api/weights the
\* stored weights are each in [0, 1] and sum to 1 within 1e-4, and a request
\* whose body breaks either condition is rejected and leaves the row as it was.
C26_StoredWeightsStayValid ==
    /\ [](composite_weights # NoRow /\ InRangeAndSumsToOne(composite_weights))
    /\ [][~InRangeAndSumsToOne(fn_in'.request.body)
             => (fn_out'.status # 200 /\ composite_weights' = composite_weights)]_vars

\* an accepted request has replaced the seeded row, and a later request with
\* the right key and a sum of 1.0005 was rejected
C26_Witness ==
    /\ fn_in.fn = "update_weights"
    /\ fn_in.request.x_admin_key = Some(fn_in.ADMIN_KEY)
    /\ fn_in.request.body = W_off
    /\ fn_out = [fn |-> "update_weights", status |-> 422]
    /\ composite_weights = W_within

====
